---- MODULE Spec2Model ----
(***************************************************************************)
(* A model of textprocessor: the transformation operations of             *)
(* TextTransformer, transform_file with its backup and output-path        *)
(* resolution over a small file system, and the analyze / transform /     *)
(* batch-analyze commands of the command line.                            *)
(*                                                                         *)
(* Text is a sequence of Unicode code points (str); a file holds a        *)
(* sequence of bytes.  Reading decodes and writing encodes.               *)
(***************************************************************************)
EXTENDS Integers, Sequences, FiniteSets, TLC

(***************************************************************************)
(* Bounds of the model.                                                    *)
(***************************************************************************)
\* longest content, in bytes, of a file that exists before the program runs
MaxFileLen == 2

\* the bytes initial files are made of: "a", "\n", and 0xE9, which is no
\* valid UTF-8 on its own and is e-acute in Latin-1
FileBytes == {97, 10, 233}

(***************************************************************************)
(* Sequences.                                                              *)
(***************************************************************************)
\* F applied to the value v
Bind(v, F(_)) == F(v)

SeqsUpTo(S, n) == UNION {[1..k -> S] : k \in 0..n}

Reversed(s) == [i \in 1..Len(s) |-> s[Len(s) + 1 - i]]

RECURSIVE Concat(_)
Concat(ss) == IF ss = <<>> THEN <<>> ELSE Head(ss) \o Concat(Tail(ss))

\* sep.join(parts)
RECURSIVE Join(_, _)
Join(parts, sep) ==
    IF parts = <<>> THEN <<>>
    ELSE IF Len(parts) = 1 THEN parts[1]
    ELSE parts[1] \o sep \o Join(Tail(parts), sep)

\* text.split(c) for a one-character separator c: always at least one part
RECURSIVE Split(_, _)
Split(s, c) ==
    IF \A i \in 1..Len(s) : s[i] # c THEN <<s>>
    ELSE LET i == CHOOSE k \in 1..Len(s) :
                      s[k] = c /\ \A j \in 1..(k - 1) : s[j] # c
         IN  <<SubSeq(s, 1, i - 1)>> \o Split(SubSeq(s, i + 1, Len(s)), c)

(***************************************************************************)
(* Characters, as Python's str methods and the re module class them        *)
(* (ASCII and Latin-1 range).                                              *)
(***************************************************************************)
\* str.isspace(), and \s in a str pattern
IsSpace(c) == c \in {9, 10, 11, 12, 13, 28, 29, 30, 31, 32, 133, 160}

\* \d in a str pattern (decimal digits; ASCII range)
IsDigit(c) == c \in 48..57

IsUpperCh(c) == c \in 65..90 \/ (c \in 192..222 /\ c # 215)

IsLowerCh(c) == c \in 97..122 \/ (c \in 223..255 /\ c # 247) \/ c \in {170, 181, 186}

IsCased(c) == IsUpperCh(c) \/ IsLowerCh(c)

\* \w in a str pattern: alphanumerics and the underscore
IsWord(c) == IsCased(c) \/ IsDigit(c) \/ c = 95 \/ c \in {178, 179, 185, 188, 189, 190}

\* str.upper() of one character (a string: sharp s becomes "SS")
UpperCh(c) ==
    IF c \in 97..122 THEN <<c - 32>>
    ELSE IF c \in 224..254 /\ c # 247 THEN <<c - 32>>
    ELSE IF c = 223 THEN <<83, 83>>
    ELSE IF c = 255 THEN <<376>>
    ELSE IF c = 181 THEN <<924>>
    ELSE <<c>>

\* str.lower() of one character
LowerCh(c) ==
    IF c \in 65..90 THEN <<c + 32>>
    ELSE IF c \in 192..222 /\ c # 215 THEN <<c + 32>>
    ELSE IF c = 376 THEN <<255>>
    ELSE IF c = 924 THEN <<956>>
    ELSE <<c>>

\* str.title() of one character that starts a word (sharp s becomes "Ss")
TitleCh(c) == IF c = 223 THEN <<83, 115>> ELSE UpperCh(c)

MapChars(s, F(_)) == Concat([i \in 1..Len(s) |-> F(s[i])])

\* str.rstrip() and str.strip()
RECURSIVE RStrip(_)
RStrip(s) ==
    IF s # <<>> /\ IsSpace(s[Len(s)]) THEN RStrip(SubSeq(s, 1, Len(s) - 1)) ELSE s

RECURSIVE LStrip(_)
LStrip(s) == IF s # <<>> /\ IsSpace(Head(s)) THEN LStrip(Tail(s)) ELSE s

Strip(s) == LStrip(RStrip(s))

\* str.split() without arguments: the maximal runs of non-whitespace
RECURSIVE Words(_)
Words(s) ==
    LET t == LStrip(s)
    IN  IF t = <<>> THEN <<>>
        ELSE LET n == IF \E k \in 1..Len(t) : IsSpace(t[k])
                      THEN (CHOOSE k \in 1..Len(t) :
                               IsSpace(t[k]) /\ \A j \in 1..(k - 1) : ~IsSpace(t[j])) - 1
                      ELSE Len(t)
             IN  <<SubSeq(t, 1, n)>> \o Words(SubSeq(t, n + 1, Len(t)))

\* str(n) for an integer n
RECURSIVE DigitsOf(_)
DigitsOf(n) == IF n < 10 THEN <<48 + n>> ELSE DigitsOf(n \div 10) \o <<48 + (n % 10)>>

Str(n) == IF n < 0 THEN <<45>> \o DigitsOf(0 - n) ELSE DigitsOf(n)

\* s.rjust(width): padded with spaces on the left
RECURSIVE RJust(_, _)
RJust(s, width) == IF Len(s) >= width THEN s ELSE RJust(<<32>> \o s, width)

\* a < b in Python's order of str: code point by code point, a proper prefix first
RECURSIVE StrLess(_, _)
StrLess(a, b) ==
    IF b = <<>> THEN FALSE
    ELSE IF a = <<>> THEN TRUE
    ELSE IF Head(a) # Head(b) THEN Head(a) < Head(b)
    ELSE StrLess(Tail(a), Tail(b))

\* is there a \b of a str pattern just before position i (1..Len(s)+1)
WordBoundary(s, i) ==
    (i > 1 /\ IsWord(s[i - 1])) # (i <= Len(s) /\ IsWord(s[i]))

MaxOf(K) == CHOOSE k \in K : \A j \in K : j <= k

\* re.sub(pattern, repl, s) for a pattern that matches no empty string:
\* MatchLen(s, i) is the length of the pattern's match starting at position i
\* (0: no match there), Repl(s, i, k) what the match s[i..i+k-1] is replaced by.
\* The scan goes left to right and resumes after each match.
ReSub(s, MatchLen(_, _), Repl(_, _, _)) ==
    LET out[i \in 1..(Len(s) + 1)] ==
            IF i > Len(s) THEN <<>>
            ELSE LET k == MatchLen(s, i)
                 IN  IF k > 0 THEN Repl(s, i, k) \o out[i + k]
                     ELSE <<s[i]>> \o out[i + 1]
    IN  out[1]

\* the lengths k >= lo of a run s[i..i+k-1] all of whose characters satisfy In
RunLens(s, i, lo, In(_)) ==
    {k \in lo..(Len(s) - i + 1) : \A j \in i..(i + k - 1) : In(s[j])}

(***************************************************************************)
(* Keyword options: kwargs is a function from option names to values, and  *)
(* kwargs.get(key, default) reads it.                                      *)
(***************************************************************************)
NoKwargs == <<>>

KwGet(kwargs, key, default) == IF key \in DOMAIN kwargs THEN kwargs[key] ELSE default

(***************************************************************************)
(* The operations of TextTransformer.                                      *)
(***************************************************************************)
_to_upper(text, kwargs) == MapChars(text, UpperCh)

_to_lower(text, kwargs) == MapChars(text, LowerCh)

\* str.title(): a cased character is title-cased when it follows an uncased
\* one (or starts the text) and lower-cased when it follows a cased one
_to_title(text, kwargs) ==
    Concat([i \in 1..Len(text) |->
              IF ~IsCased(text[i]) THEN <<text[i]>>
              ELSE IF i > 1 /\ IsCased(text[i - 1]) THEN LowerCh(text[i])
              ELSE TitleCh(text[i])])

\* _to_sentence_case that leaves the remainder as it is: text[0].upper() + text[1:]
_to_sentence_case_remainder_kept(text, kwargs) ==
    IF text = <<>> THEN text
    ELSE UpperCh(text[1]) \o Tail(text)

_to_sentence_case(text, kwargs) ==
    IF text = <<>> THEN text
    ELSE UpperCh(text[1]) \o MapChars(Tail(text), LowerCh)

IsBlank(c) == c = 32

\* r' +'
SpacesLen(s, i) ==
    LET K == RunLens(s, i, 1, IsBlank) IN IF K = {} THEN 0 ELSE MaxOf(K)

OneSpace(s, i, k) == <<32>>

Nothing(s, i, k) == <<>>

NonBlankLines(lines) == SelectSeq(lines, LAMBDA line : Strip(line) # <<>>)

\* _clean_whitespace that returns result, not result.strip() (line 138)
_clean_whitespace_unstripped(text, kwargs) ==
    LET r1 == IF KwGet(kwargs, "strip_lines", TRUE)
              THEN LET lines == Split(text, 10)
                   IN  Join([i \in 1..Len(lines) |-> RStrip(lines[i])], <<10>>)
              ELSE text
        r2 == IF KwGet(kwargs, "normalize_spaces", TRUE)
              THEN ReSub(r1, SpacesLen, OneSpace)
              ELSE r1
    IN  IF KwGet(kwargs, "remove_empty_lines", FALSE)
        THEN Join(NonBlankLines(Split(r2, 10)), <<10>>)
        ELSE r2

_clean_whitespace(text, kwargs) ==
    LET r1 == IF KwGet(kwargs, "strip_lines", TRUE)
              THEN LET lines == Split(text, 10)
                   IN  Join([i \in 1..Len(lines) |-> RStrip(lines[i])], <<10>>)
              ELSE text
        r2 == IF KwGet(kwargs, "normalize_spaces", TRUE)
              THEN ReSub(r1, SpacesLen, OneSpace)
              ELSE r1
        r3 == IF KwGet(kwargs, "remove_empty_lines", FALSE)
              THEN Join(NonBlankLines(Split(r2, 10)), <<10>>)
              ELSE r2
    IN  Strip(r3)

\* the class [,.!?;:]
IsMark(c) == c \in {44, 46, 33, 63, 59, 58}

\* r' +([,.!?;:])'
SpacesMarkLen(s, i) ==
    LET K == {k \in RunLens(s, i, 1, IsBlank) : i + k <= Len(s) /\ IsMark(s[i + k])}
    IN  IF K = {} THEN 0 ELSE MaxOf(K) + 1

\* r'\1'
TheMark(s, i, k) == <<s[i + k - 1]>>

\* r'([,.!?;:])([^\s\n])'
MarkCharLen(s, i) ==
    IF IsMark(s[i]) /\ i + 1 <= Len(s) /\ ~IsSpace(s[i + 1]) /\ s[i + 1] # 10
    THEN 2 ELSE 0

\* r'\1 \2'
MarkSpaceChar(s, i, k) == <<s[i], 32, s[i + 1]>>

\* the pattern r'[""' '`]': two adjacent literals, which Python joins to the
\* class ["`] of the straight double quote and the backtick
QuoteLen(s, i) == IF s[i] \in {34, 96} THEN 1 ELSE 0

DoubleQuote(s, i, k) == <<34>>

_normalize_text(text, kwargs) ==
    LET r0 == _clean_whitespace(text, kwargs)
        r1 == IF KwGet(kwargs, "fix_punctuation", TRUE)
              THEN ReSub(ReSub(r0, SpacesMarkLen, TheMark), MarkCharLen, MarkSpaceChar)
              ELSE r0
    IN  IF KwGet(kwargs, "standardize_quotes", TRUE)
        THEN ReSub(r1, QuoteLen, DoubleQuote)
        ELSE r1

\* r'[^\w\s]' with '.' and "'" added to the excluded set on request
_remove_punctuation(text, kwargs) ==
    LET Removed(c) ==
            /\ ~IsWord(c)
            /\ ~IsSpace(c)
            /\ ~(KwGet(kwargs, "keep_periods", FALSE) /\ c = 46)
            /\ ~(KwGet(kwargs, "keep_apostrophes", FALSE) /\ c = 39)
    IN  SelectSeq(text, LAMBDA c : ~Removed(c))

\* r'\b(?<!\d)\d{1,3}(?!\d)\b'
ShortNumberLen(s, i) ==
    LET K == {k \in RunLens(s, i, 1, IsDigit) :
                /\ k <= 3
                /\ ~(i + k <= Len(s) /\ IsDigit(s[i + k]))
                /\ WordBoundary(s, i + k)}
    IN  IF WordBoundary(s, i) /\ ~(i > 1 /\ IsDigit(s[i - 1])) /\ K # {}
        THEN MaxOf(K) ELSE 0

\* r'\b\d{5,}\b'
LongNumberLen(s, i) ==
    LET K == {k \in RunLens(s, i, 5, IsDigit) : WordBoundary(s, i + k)}
    IN  IF WordBoundary(s, i) /\ K # {} THEN MaxOf(K) ELSE 0

\* r'\d+'
NumberLen(s, i) ==
    LET K == RunLens(s, i, 1, IsDigit) IN IF K = {} THEN 0 ELSE MaxOf(K)

_remove_numbers(text, kwargs) ==
    LET result == IF KwGet(kwargs, "keep_years", FALSE)
                  THEN ReSub(ReSub(text, ShortNumberLen, Nothing), LongNumberLen, Nothing)
                  ELSE ReSub(text, NumberLen, Nothing)
    IN  Strip(ReSub(result, SpacesLen, OneSpace))

\* _reverse_text that reverses the order of the words when no flag is given
_reverse_text_words_by_default(text, kwargs) ==
    IF KwGet(kwargs, "by_lines", FALSE)
    THEN Join(Reversed(Split(text, 10)), <<10>>)
    ELSE Join(Reversed(Words(text)), <<32>>)

\* _reverse_text that looks at by_words before by_lines
_reverse_text_words_first(text, kwargs) ==
    IF KwGet(kwargs, "by_words", FALSE)
    THEN Join(Reversed(Words(text)), <<32>>)
    ELSE IF KwGet(kwargs, "by_lines", FALSE)
    THEN Join(Reversed(Split(text, 10)), <<10>>)
    ELSE Reversed(text)

_reverse_text(text, kwargs) ==
    IF KwGet(kwargs, "by_lines", FALSE)
    THEN Join(Reversed(Split(text, 10)), <<10>>)
    ELSE IF KwGet(kwargs, "by_words", FALSE)
    THEN Join(Reversed(Words(text)), <<32>>)
    ELSE Reversed(text)

\* list(dict.fromkeys(lines)): the first occurrence of each line, in order
FromKeys(lines) ==
    LET first == {i \in 1..Len(lines) : \A j \in 1..(i - 1) : lines[j] # lines[i]}
        pick[i \in 1..(Len(lines) + 1)] ==
            IF i > Len(lines) THEN <<>>
            ELSE (IF i \in first THEN <<lines[i]>> ELSE <<>>) \o pick[i + 1]
    IN  pick[1]

\* list.sort done as an ascending sort that is turned round for reverse: lines
\* with equal keys change places
SortedBy_turned_round(lines, keys, reverse) ==
    LET order[n \in 0..Len(lines)] ==
            IF n = 0 THEN <<>>
            ELSE LET prev == order[n - 1]
                     after == {p \in 1..Len(prev) : StrLess(keys[n], keys[prev[p]])}
                     at == IF after = {} THEN Len(prev) + 1
                           ELSE CHOOSE p \in after : \A q \in after : p <= q
                 IN  SubSeq(prev, 1, at - 1) \o <<n>> \o SubSeq(prev, at, Len(prev))
        sorted == [p \in 1..Len(lines) |-> lines[order[Len(lines)][p]]]
    IN  IF reverse THEN Reversed(sorted) ELSE sorted

\* list.sort(key=..., reverse=...): stable, also when reverse is set.  keys[i]
\* is the key of lines[i]; each line is inserted behind the lines already
\* placed that do not come after it.
SortedBy(lines, keys, reverse) ==
    LET Before(i, j) == IF reverse THEN StrLess(keys[j], keys[i])
                        ELSE StrLess(keys[i], keys[j])
        \* order[1..n]: the indices of lines[1..n], sorted
        order[n \in 0..Len(lines)] ==
            IF n = 0 THEN <<>>
            ELSE LET prev == order[n - 1]
                     after == {p \in 1..Len(prev) : Before(n, prev[p])}
                     at == IF after = {} THEN Len(prev) + 1
                           ELSE CHOOSE p \in after : \A q \in after : p <= q
                 IN  SubSeq(prev, 1, at - 1) \o <<n>> \o SubSeq(prev, at, Len(prev))
    IN  [p \in 1..Len(lines) |-> lines[order[Len(lines)][p]]]
\* _sort_lines without lines 237-238: the duplicates stay
_sort_lines_with_duplicates(text, kwargs) ==
    LET lines == Split(text, 10)
        keys  == IF KwGet(kwargs, "ignore_case", FALSE)
                 THEN [i \in 1..Len(lines) |-> MapChars(lines[i], LowerCh)]
                 ELSE lines
    IN  Join(SortedBy(lines, keys, KwGet(kwargs, "reverse", FALSE)), <<10>>)

_sort_lines(text, kwargs) ==
    LET split == Split(text, 10)
        lines == IF KwGet(kwargs, "remove_duplicates", FALSE) THEN FromKeys(split) ELSE split
        keys  == IF KwGet(kwargs, "ignore_case", FALSE)
                 THEN [i \in 1..Len(lines) |-> MapChars(lines[i], LowerCh)]
                 ELSE lines
    IN  Join(SortedBy(lines, keys, KwGet(kwargs, "reverse", FALSE)), <<10>>)

\* _remove_empty_lines that tests `if line` in place of `if line.strip()`
_remove_empty_lines_unstripped(text, kwargs) ==
    Join(SelectSeq(Split(text, 10), LAMBDA line : line # <<>>), <<10>>)

_remove_empty_lines(text, kwargs) == Join(NonBlankLines(Split(text, 10)), <<10>>)

\* _add_line_numbers that counts from 1 whatever start is (enumerate(lines, 1))
_add_line_numbers_from_one(text, kwargs) ==
    LET lines == Split(text, 10)
        start == KwGet(kwargs, "start", 1)
        separator == KwGet(kwargs, "separator", <<58, 32>>)
        width == KwGet(kwargs, "width", Len(Str(Len(lines) + start - 1)))
    IN  Join([k \in 1..Len(lines) |->
                RJust(Str(k), width) \o separator \o lines[k]], <<10>>)

_add_line_numbers(text, kwargs) ==
    LET lines == Split(text, 10)
        start == KwGet(kwargs, "start", 1)
        separator == KwGet(kwargs, "separator", <<58, 32>>)
        width == KwGet(kwargs, "width", Len(Str(Len(lines) + start - 1)))
    IN  Join([k \in 1..Len(lines) |->
                RJust(Str(start + k - 1), width) \o separator \o lines[k]], <<10>>)

\* the registry with the entry for upper left out
OperationNames_without_upper ==
    <<"lower", "title", "sentence", "clean", "normalize",
      "remove_punctuation", "remove_numbers", "reverse", "sort_lines",
      "remove_empty_lines", "add_line_numbers">>

\* lines 37-50: the keys of the operations dict, in its order
OperationNames ==
    <<"upper", "lower", "title", "sentence", "clean", "normalize",
      "remove_punctuation", "remove_numbers", "reverse", "sort_lines",
      "remove_empty_lines", "add_line_numbers">>

IsOperation(operation) == \E i \in 1..Len(OperationNames) : OperationNames[i] = operation

\* operations[operation](text, **kwargs)
Apply(operation, text, kwargs) ==
    CASE operation = "upper" -> _to_upper(text, kwargs)
      [] operation = "lower" -> _to_lower(text, kwargs)
      [] operation = "title" -> _to_title(text, kwargs)
      [] operation = "sentence" -> _to_sentence_case(text, kwargs)
      [] operation = "clean" -> _clean_whitespace(text, kwargs)
      [] operation = "normalize" -> _normalize_text(text, kwargs)
      [] operation = "remove_punctuation" -> _remove_punctuation(text, kwargs)
      [] operation = "remove_numbers" -> _remove_numbers(text, kwargs)
      [] operation = "reverse" -> _reverse_text(text, kwargs)
      [] operation = "sort_lines" -> _sort_lines(text, kwargs)
      [] operation = "remove_empty_lines" -> _remove_empty_lines(text, kwargs)
      [] operation = "add_line_numbers" -> _add_line_numbers(text, kwargs)

\* what a call ends with: a returned value or a raised exception.  A message
\* is the sequence of the pieces it is formatted from.
Returned(v) == [ok |-> TRUE, value |-> v]

Raised(exc, msg) == [ok |-> FALSE, exc |-> exc, msg |-> msg]

UnknownOperationMessage(operation) ==
    <<"Unknown operation '", operation, "'. Available: ">>
    \o Join([i \in 1..Len(OperationNames) |-> <<OperationNames[i]>>], <<", ">>)

\* transform_text without the check of lines 52-54: an operation that is not
\* registered leaves the text as it is
transform_text_unchecked(text, operation, kwargs) ==
    IF ~IsOperation(operation)
    THEN Returned(text)
    ELSE Returned(Apply(operation, text, kwargs))

transform_text(text, operation, kwargs) ==
    IF ~IsOperation(operation)
    THEN Raised("ValueError", UnknownOperationMessage(operation))
    ELSE Returned(Apply(operation, text, kwargs))

(***************************************************************************)
(* Encodings: what open(..., encoding=...) does to the bytes of a file.    *)
(***************************************************************************)
IsCont(b) == b \in 128..191

\* bytes.decode('utf-8'): the length of the well-formed sequence that starts
\* at position i, 0 if there is none
Utf8Len(bs, i) ==
    LET b == bs[i]
        Cont(j) == j <= Len(bs) /\ IsCont(bs[j])
    IN  IF b < 128 THEN 1
        ELSE IF b \in 194..223 /\ Cont(i + 1) THEN 2
        ELSE IF /\ b \in 224..239 /\ Cont(i + 1) /\ Cont(i + 2)
                /\ (b = 224 => bs[i + 1] >= 160)
                /\ (b = 237 => bs[i + 1] <= 159) THEN 3
        ELSE IF /\ b \in 240..244 /\ Cont(i + 1) /\ Cont(i + 2) /\ Cont(i + 3)
                /\ (b = 240 => bs[i + 1] >= 144)
                /\ (b = 244 => bs[i + 1] <= 143) THEN 4
        ELSE 0

Utf8Point(bs, i, n) ==
    CASE n = 1 -> bs[i]
      [] n = 2 -> (bs[i] - 192) * 64 + (bs[i + 1] - 128)
      [] n = 3 -> (bs[i] - 224) * 4096 + (bs[i + 1] - 128) * 64 + (bs[i + 2] - 128)
      [] n = 4 -> (bs[i] - 240) * 262144 + (bs[i + 1] - 128) * 4096
                  + (bs[i + 2] - 128) * 64 + (bs[i + 3] - 128)

\* a decoder's result: the text, or the UnicodeDecodeError it raises
DecodeUtf8(bs) ==
    LET dec[i \in 1..(Len(bs) + 1)] ==
            IF i > Len(bs) THEN Returned(<<>>)
            ELSE LET n == Utf8Len(bs, i)
                 IN  IF n = 0 THEN Raised("UnicodeDecodeError", <<"utf-8">>)
                     ELSE LET rest == dec[i + n]
                          IN  IF rest.ok
                              THEN Returned(<<Utf8Point(bs, i, n)>> \o rest.value)
                              ELSE rest
    IN  dec[1]

\* 'utf-8-sig': a leading byte order mark is dropped
DecodeUtf8Sig(bs) ==
    IF Len(bs) >= 3 /\ SubSeq(bs, 1, 3) = <<239, 187, 191>>
    THEN DecodeUtf8(SubSeq(bs, 4, Len(bs)))
    ELSE DecodeUtf8(bs)

\* 'latin-1': every byte is the code point of its value
DecodeLatin1(bs) == Returned(bs)

\* 'cp1252': the bytes 0x80..0x9F map through the code page's table, five
\* of them to nothing
Cp1252High ==
    <<8364, 0, 8218, 402, 8222, 8230, 8224, 8225, 710, 8240, 352, 8249, 338, 0, 381, 0,
      0, 8216, 8217, 8220, 8221, 8226, 8211, 8212, 732, 8482, 353, 8250, 339, 0, 382, 376>>

DecodeCp1252(bs) ==
    IF \E i \in 1..Len(bs) : bs[i] \in 128..159 /\ Cp1252High[bs[i] - 127] = 0
    THEN Raised("UnicodeDecodeError", <<"cp1252">>)
    ELSE Returned([i \in 1..Len(bs) |->
                     IF bs[i] \in 128..159 THEN Cp1252High[bs[i] - 127] ELSE bs[i]])

Decode(encoding, bs) ==
    CASE encoding = "utf-8" -> DecodeUtf8(bs)
      [] encoding = "utf-8-sig" -> DecodeUtf8Sig(bs)
      [] encoding = "latin-1" -> DecodeLatin1(bs)
      [] encoding = "cp1252" -> DecodeCp1252(bs)

\* str.encode('utf-8') of one code point
Utf8Bytes(c) ==
    IF c < 128 THEN <<c>>
    ELSE IF c < 2048 THEN <<192 + (c \div 64), 128 + (c % 64)>>
    ELSE IF c < 65536
    THEN <<224 + (c \div 4096), 128 + ((c \div 64) % 64), 128 + (c % 64)>>
    ELSE <<240 + (c \div 262144), 128 + ((c \div 4096) % 64),
           128 + ((c \div 64) % 64), 128 + (c % 64)>>

EncodeUtf8(text) == MapChars(text, Utf8Bytes)

\* reading in text mode (newline=None): "\r\n" and "\r" become "\n"
CrLfLen(s, i) ==
    IF s[i] = 13 THEN (IF i + 1 <= Len(s) /\ s[i + 1] = 10 THEN 2 ELSE 1) ELSE 0

LineFeed(s, i, k) == <<10>>

UniversalNewlines(text) == ReSub(text, CrLfLen, LineFeed)

\* open(path, 'r', encoding=encoding).read()
ReadAs(encoding, bs) ==
    Bind(Decode(encoding, bs),
         LAMBDA d : IF d.ok THEN Returned(UniversalNewlines(d.value)) ELSE d)

\* open(path, 'w', encoding='utf-8').write(content) on a POSIX system, where
\* "\n" is written as it is
WrittenBytes(content) == EncodeUtf8(content)

(***************************************************************************)
(* Paths.  A file name is the sequence of the pieces it is spelled from: a *)
(* stem and dotted or undotted pieces after it, so <<"a", ".txt", ".bak">> *)
(* is "a.txt.bak".  A path has an anchor ("" for a relative path, "/w/"    *)
(* for an absolute path into the working directory /w), the name of its    *)
(* parent directory below the working directory (<<>> for the working      *)
(* directory itself) and its name.                                         *)
(***************************************************************************)
Dotted == {".txt", ".bak"}

MkPath(anchor, parent, name) == [anchor |-> anchor, parent |-> parent, name |-> name]

Rel(name) == MkPath("", <<>>, name)

\* str(path), as the pieces it is spelled from
PathStr(path) == <<path.anchor>> \o path.parent \o path.name

\* Path.suffix: from the last dot of the name on, unless the name starts there
PathSuffix(path) ==
    LET dots == {i \in 2..Len(path.name) : path.name[i] \in Dotted}
    IN  IF dots = {} THEN <<>>
        ELSE SubSeq(path.name, MaxOf(dots), Len(path.name))

\* Path.with_suffix(suffix): ValueError for a suffix that is not empty and
\* does not start with a dot; otherwise the old suffix is replaced
WithSuffix(path, suffix) ==
    IF suffix # <<>> /\ suffix[1] \notin Dotted
    THEN Raised("ValueError", <<"Invalid suffix ">> \o suffix)
    ELSE LET old == PathSuffix(path)
         IN  Returned([path EXCEPT
                 !.name = SubSeq(path.name, 1, Len(path.name) - Len(old)) \o suffix])

\* the file a path denotes: an absolute and a relative spelling of a file in
\* the working directory denote the same file
FileOf(path) == [parent |-> path.parent, name |-> path.name]

DirOf(parent) == [parent |-> <<>>, name |-> parent]

(***************************************************************************)
(* The state.                                                              *)
(***************************************************************************)
VARIABLES
    fs,           \* the regular files: file |-> its bytes
    dirs,         \* the directories below the working directory
    cmd,          \* what the process was started to do, with its arguments
    transformer,  \* the TextTransformer: preserve_original, backup_suffix
    pc,           \* where the process is
    loc,          \* the locals of the running call
    result,       \* what transform_file returned or raised
    console,      \* what has been printed, in order
    exit_code,    \* the exit code of the process, once it has ended
    before,       \* history: the files and directories when the process began
    io            \* history: the files opened for writing and written, in order

vars == <<fs, dirs, cmd, transformer, pc, loc, result, console, exit_code, before, io>>

\* an optional value: None, or the value
None == <<>>

Some(v) == <<v>>

\* Path.exists()
Exists(files, directories, path) ==
    FileOf(path) \in DOMAIN files \/ FileOf(path) \in directories

SetFile(files, file, bs) ==
    [f \in DOMAIN files \cup {file} |-> IF f = file THEN bs ELSE files[f]]

\* read_text_file: the first of the four encodings that decodes
Encodings == <<"utf-8", "utf-8-sig", "latin-1", "cp1252">>
\* read_text_file that tries UTF-8 only
ReadExisting_utf8_only(files, directories, file_path) ==
    IF FileOf(file_path) \in directories
    THEN Raised("IsADirectoryError", PathStr(file_path))
    ELSE ReadAs("utf-8", files[FileOf(file_path)])

\* lines 31-40: the file is there
ReadExisting(files, directories, file_path) ==
    IF FileOf(file_path) \in directories
    THEN Raised("IsADirectoryError", PathStr(file_path))
    ELSE LET tried == [i \in 1..Len(Encodings) |->
                         ReadAs(Encodings[i], files[FileOf(file_path)])]
             good == {i \in 1..Len(Encodings) : tried[i].ok}
         IN  IF good # {}
             THEN tried[CHOOSE i \in good : \A j \in good : i <= j]
             \* UnicodeDecodeError is constructed with one argument
             ELSE Raised("TypeError", <<"UnicodeDecodeError">>)

\* read_text_file without the check of lines 27-28: a missing file reads as
\* an empty one
read_text_file_unchecked(files, directories, file_path) ==
    IF ~Exists(files, directories, file_path)
    THEN Returned(<<>>)
    ELSE ReadExisting(files, directories, file_path)

read_text_file(files, directories, file_path) ==
    IF ~Exists(files, directories, file_path)
    THEN Raised("FileNotFoundError", <<"File not found: ">> \o PathStr(file_path))
    ELSE ReadExisting(files, directories, file_path)

(***************************************************************************)
(* transform_file, step by step.  The steps are cut where the call reads   *)
(* or writes the file system: reading the source, computing the text and   *)
(* the destination, opening and writing the backup, opening and writing    *)
(* the destination.  Opening a file for writing empties it; opening and    *)
(* writing may fail (a full disk, a file that may not be written).         *)
(***************************************************************************)
\* lines 80-83: the destination is the output path, or the input path
ResolveOutput(output_path, input_path) ==
    IF output_path = None THEN input_path ELSE output_path[1]

\* line 86: Path equality compares the spellings
\* line 86 without the comparison of the paths
NeedsBackup_always(self, output_path, input_path) == self.preserve_original

NeedsBackup(self, output_path, input_path) ==
    self.preserve_original /\ output_path = input_path

\* create_backup, line 184
BackupPath(path, suffix) == WithSuffix(path, PathSuffix(path) \o suffix)

\* open(path, 'w') can succeed: the parent directory is there and the path
\* is no directory
CanOpen(directories, path) ==
    /\ path.parent # <<>> => DirOf(path.parent) \in directories
    /\ FileOf(path) \notin directories

Event(op, role, path) == [op |-> op, role |-> role, file |-> FileOf(path)]

NoLocals ==
    [text |-> <<>>, transformed_text |-> <<>>, output_path |-> None,
     backup_path |-> None, backup_text |-> <<>>]

Raise(r) ==
    /\ pc' = "raised"
    /\ result' = Some(r)

\* transform_file is called: on the object self, with these arguments
CallTransformFile(self, file_path, operation, output_path) ==
    /\ pc = "start"
    /\ cmd' = [name |-> "transform_file", file_path |-> file_path,
               operation |-> operation, output_path |-> output_path,
               kwargs |-> NoKwargs]
    /\ transformer' = self
    /\ pc' = "tf_read"
    /\ UNCHANGED before
    /\ UNCHANGED <<fs, dirs, loc, result, console, exit_code, io>>

\* line 74
TfRead ==
    /\ pc = "tf_read"
    /\ \E r \in {read_text_file(fs, dirs, cmd.file_path)} :
           IF r.ok
           THEN /\ loc' = [loc EXCEPT !.text = r.value]
                /\ pc' = "tf_transform"
                /\ UNCHANGED result
           ELSE /\ Raise(r)
                /\ UNCHANGED loc
    /\ UNCHANGED <<fs, dirs, cmd, transformer, console, exit_code, before, io>>

\* lines 77-86
TfTransform ==
    /\ pc = "tf_transform"
    /\ \E r \in {transform_text(loc.text, cmd.operation, cmd.kwargs)},
          output_path \in {ResolveOutput(cmd.output_path, cmd.file_path)} :
           IF r.ok
           THEN /\ loc' = [loc EXCEPT !.transformed_text = r.value,
                                      !.output_path = Some(output_path)]
                /\ pc' = IF NeedsBackup(transformer, output_path, cmd.file_path)
                         THEN "tf_backup" ELSE "tf_write"
                /\ UNCHANGED result
           ELSE /\ Raise(r)
                /\ UNCHANGED loc
    /\ UNCHANGED <<fs, dirs, cmd, transformer, console, exit_code, before, io>>

\* line 87, create_backup lines 183-187 up to the opening of the backup file:
\* the backup path is computed, the source is read as UTF-8, the backup file
\* is opened for writing
TfBackup ==
    /\ pc = "tf_backup"
    /\ \E bp \in {BackupPath(cmd.file_path, transformer.backup_suffix)} :
           IF ~bp.ok
           THEN Raise(bp) /\ UNCHANGED <<fs, loc, io>>
           ELSE IF ~Exists(fs, dirs, cmd.file_path)
           THEN /\ pc' = "tf_write"
                /\ loc' = [loc EXCEPT !.backup_path = Some(bp.value)]
                /\ UNCHANGED <<fs, result, io>>
           ELSE \E rd \in {ReadAs("utf-8", fs[FileOf(cmd.file_path)])} :
           IF ~rd.ok
           THEN Raise(rd) /\ UNCHANGED <<fs, loc, io>>
           ELSE \E opened \in BOOLEAN :
                  IF opened /\ CanOpen(dirs, bp.value)
                  THEN /\ fs' = SetFile(fs, FileOf(bp.value), <<>>)
                       /\ loc' = [loc EXCEPT !.backup_path = Some(bp.value),
                                             !.backup_text = rd.value]
                       /\ io' = Append(io, Event("open", "backup", bp.value))
                       /\ pc' = "tf_backup_write"
                       /\ UNCHANGED result
                  ELSE Raise(Raised("OSError", PathStr(bp.value)))
                       /\ UNCHANGED <<fs, loc, io>>
    /\ UNCHANGED <<dirs, cmd, transformer, console, exit_code, before>>

\* create_backup line 187: the text is written to the opened backup file
TfBackupWrite ==
    /\ pc = "tf_backup_write"
    /\ \E written \in BOOLEAN :
         IF written
         THEN /\ fs' = SetFile(fs, FileOf(loc.backup_path[1]),
                               WrittenBytes(loc.backup_text))
              /\ io' = Append(io, Event("write", "backup", loc.backup_path[1]))
              /\ pc' = "tf_write"
              /\ UNCHANGED result
         ELSE Raise(Raised("OSError", PathStr(loc.backup_path[1])))
              /\ UNCHANGED <<fs, io>>
    /\ UNCHANGED <<dirs, cmd, transformer, loc, console, exit_code, before>>

\* write_text_file lines 50-53: the parent directory is made if it is not
\* there, and the file is opened for writing
WriteOpen(path, ok_pc, outcome) ==
    LET made == dirs \cup (IF path.parent = <<>> THEN {} ELSE {DirOf(path.parent)})
    IN  CASE outcome = "mkdir fails" ->
               /\ made # dirs
               /\ Raise(Raised("OSError", path.parent))
               /\ UNCHANGED <<fs, dirs, io>>
          [] outcome = "open fails" ->
               /\ dirs' = made
               /\ Raise(Raised("OSError", PathStr(path)))
               /\ UNCHANGED <<fs, io>>
          [] outcome = "opened" ->
               IF CanOpen(made, path)
               THEN /\ dirs' = made
                    /\ fs' = SetFile(fs, FileOf(path), <<>>)
                    /\ io' = Append(io, Event("open", "destination", path))
                    /\ pc' = ok_pc
                    /\ UNCHANGED result
               ELSE /\ dirs' = made
                    /\ Raise(Raised("IsADirectoryError", PathStr(path)))
                    /\ UNCHANGED <<fs, io>>

\* write_text_file line 54
WriteData(path, content, written) ==
    IF written
    THEN /\ fs' = SetFile(fs, FileOf(path), WrittenBytes(content))
         /\ io' = Append(io, Event("write", "destination", path))
    ELSE UNCHANGED <<fs, io>>

\* line 90, first half
TfWrite ==
    /\ pc = "tf_write"
    /\ \E outcome \in {"mkdir fails", "open fails", "opened"} :
         WriteOpen(loc.output_path[1], "tf_write_data", outcome)
    /\ UNCHANGED <<cmd, transformer, loc, console, exit_code, before>>

\* line 90, second half, and line 92
TfWriteData ==
    /\ pc = "tf_write_data"
    /\ \E written \in BOOLEAN :
         /\ WriteData(loc.output_path[1], loc.transformed_text, written)
         /\ IF written
            THEN /\ pc' = "returned"
                 /\ result' = Some(Returned(loc.output_path[1]))
            ELSE Raise(Raised("OSError", PathStr(loc.output_path[1])))
    /\ UNCHANGED <<dirs, cmd, transformer, loc, console, exit_code, before>>

(***************************************************************************)
(* The analyzer, as far as the commands read its results: basic_stats and  *)
(* file_info.                                                              *)
(***************************************************************************)
\* text.split(sep) for a separator of two equal characters
RECURSIVE Split2(_, _)
Split2(s, c) ==
    LET at == {k \in 1..(Len(s) - 1) : s[k] = c /\ s[k + 1] = c}
    IN  IF at = {} THEN <<s>>
        ELSE LET i == CHOOSE k \in at : \A j \in at : k <= j
             IN  <<SubSeq(s, 1, i - 1)>> \o Split2(SubSeq(s, i + 2, Len(s)), c)

_get_basic_stats(text) ==
    LET lines == Split(text, 10)
        paragraphs == SelectSeq(Split2(text, 10), LAMBDA q : Strip(q) # <<>>)
    IN  [character_count |-> Len(text),
         character_count_no_spaces |-> Len(SelectSeq(text, LAMBDA c : c # 32)),
         word_count |-> Len(Words(text)),
         line_count |-> Len(lines),
         paragraph_count |-> Len(paragraphs),
         blank_lines |-> Len(SelectSeq(lines, LAMBDA line : Strip(line) = <<>>))]
\* re.findall(pattern, s) for a pattern without groups that matches no empty
\* string: the matches, left to right
FindAll(s, MatchLen(_, _)) ==
    LET out[i \in 1..(Len(s) + 1)] ==
            IF i > Len(s) THEN <<>>
            ELSE LET k == MatchLen(s, i)
                 IN  IF k > 0 THEN <<SubSeq(s, i, i + k - 1)>> \o out[i + k]
                     ELSE out[i + 1]
    IN  out[1]

\* re.split(pattern, s) for such a pattern: what stands between the matches
ReSplit(s, MatchLen(_, _)) ==
    LET out[i \in 1..(Len(s) + 1)] ==
            IF i > Len(s) THEN <<<<>>>>
            ELSE LET k == MatchLen(s, i)
                 IN  IF k > 0 THEN <<<<>>>> \o out[i + k]
                     ELSE <<<<s[i]>> \o Head(out[i + 1])>> \o Tail(out[i + 1])
    IN  out[1]

\* r'\b\w+\b'
WordLen(s, i) ==
    LET K == {k \in RunLens(s, i, 1, IsWord) : WordBoundary(s, i + k)}
    IN  IF WordBoundary(s, i) /\ K # {} THEN MaxOf(K) ELSE 0

\* r'[.!?]+'
SentenceEndLen(s, i) ==
    LET K == RunLens(s, i, 1, LAMBDA c : c \in {46, 33, 63})
    IN  IF K = {} THEN 0 ELSE MaxOf(K)

RECURSIVE Gcd(_, _)
Gcd(a, b) == IF b = 0 THEN a ELSE Gcd(b, a % b)

\* the float a / b of two counts, b > 0, kept as a fraction in lowest terms;
\* 0.0 is 0 / 1
Quotient(a, b) == [num |-> a \div Gcd(a, b), den |-> b \div Gcd(a, b)]

RECURSIVE Sum(_)
Sum(ns) == IF ns = <<>> THEN 0 ELSE Head(ns) + Sum(Tail(ns))

\* max(items, key=...) and min(items, key=...): the first item of the largest
\* (smallest) key; sizes[i] is the key of items[i]
FirstOfMost(items, sizes) ==
    items[CHOOSE i \in 1..Len(items) :
            /\ \A j \in 1..Len(items) : sizes[j] <= sizes[i]
            /\ \A j \in 1..(i - 1) : sizes[j] < sizes[i]]

FirstOfLeast(items, sizes) ==
    items[CHOOSE i \in 1..Len(items) :
            /\ \A j \in 1..Len(items) : sizes[j] >= sizes[i]
            /\ \A j \in 1..(i - 1) : sizes[j] > sizes[i]]

_analyze_words(text) ==
    LET words == FindAll(MapChars(text, LowerCh), WordLen)
        word_lengths == [i \in 1..Len(words) |-> Len(words[i])]
        \* the keys of word_freq, in the order they were inserted
        keys == FromKeys(words)
        count == [i \in 1..Len(keys) |-> Len(SelectSeq(words, LAMBDA w : w = keys[i]))]
        items == [i \in 1..Len(keys) |-> [key |-> keys[i], value |-> count[i]]]
        sorted == SortedBy(items, [i \in 1..Len(keys) |-> <<count[i]>>], TRUE)
        top_words == SubSeq(sorted, 1, IF Len(sorted) < 10 THEN Len(sorted) ELSE 10)
    IN  IF words = <<>>
        THEN [unique_words |-> 0,
              average_word_length |-> Quotient(0, 1),
              longest_word |-> <<>>,
              shortest_word |-> <<>>,
              word_frequency |-> <<>>]
        ELSE [unique_words |-> Len(keys),
              average_word_length |-> Quotient(Sum(word_lengths), Len(word_lengths)),
              longest_word |-> FirstOfMost(words, word_lengths),
              shortest_word |-> FirstOfLeast(words, word_lengths),
              word_frequency |-> top_words]

\* nltk and textstat are not installed: the imports of lines 7-20 fail
NLTK_AVAILABLE == FALSE

TEXTSTAT_AVAILABLE == FALSE

\* the sentences are split by the rule of line 159
_analyze_sentences(text) ==
    LET stripped == [i \in 1..Len(ReSplit(text, SentenceEndLen)) |->
                        Strip(ReSplit(text, SentenceEndLen)[i])]
        sentences == SelectSeq(stripped, LAMBDA s : s # <<>>)
        sentence_lengths == [i \in 1..Len(sentences) |-> Len(Words(sentences[i]))]
    IN  IF sentences = <<>>
        THEN [sentence_count |-> 0,
              average_sentence_length |-> Quotient(0, 1),
              longest_sentence |-> <<>>,
              shortest_sentence |-> <<>>]
        ELSE [sentence_count |-> Len(sentences),
              average_sentence_length |->
                  Quotient(Sum(sentence_lengths), Len(sentence_lengths)),
              longest_sentence |-> FirstOfMost(sentences, sentence_lengths),
              shortest_sentence |-> FirstOfLeast(sentences, sentence_lengths)]

\* c.isdigit(): the decimal digits and the superscript digits
IsDigitStr(c) == IsDigit(c) \/ c \in {178, 179, 185}

\* c.isalnum()
IsAlnum(c) == IsWord(c) /\ c # 95

CountOf(text, In(_)) == Len(SelectSeq(text, In))

_analyze_characters(text) ==
    [uppercase_letters |-> CountOf(text, IsUpperCh),
     lowercase_letters |-> CountOf(text, IsLowerCh),
     digits |-> CountOf(text, IsDigitStr),
     spaces |-> CountOf(text, IsSpace),
     punctuation |->
         CountOf(text, LAMBDA c :
                    c \in {46, 44, 33, 63, 59, 58, 34, 40, 41, 91, 93, 123, 125}),
     special_characters |-> CountOf(text, LAMBDA c : ~IsAlnum(c) /\ ~IsSpace(c))]

\* analyze_text(text, include_readability): the readability scores and the
\* linguistic analysis are left out when their libraries are missing
analyze_text(text, include_readability) ==
    [basic_stats |-> _get_basic_stats(text),
     word_analysis |-> _analyze_words(text),
     sentence_analysis |-> _analyze_sentences(text),
     character_analysis |-> _analyze_characters(text)]

\* path.stat() raises when there is no file at the path
_get_file_info(files, file_path) ==
    IF FileOf(file_path) \notin DOMAIN files
    THEN Raised("FileNotFoundError", PathStr(file_path))
    ELSE Returned([filename |-> file_path.name,
                   file_size_bytes |-> Len(files[FileOf(file_path)]),
                   file_extension |-> PathSuffix(file_path)])

analyze_file(files, directories, file_path) ==
    Bind(read_text_file(files, directories, file_path),
         LAMBDA r :
            IF ~r.ok THEN r
            ELSE Bind(_get_file_info(files, file_path),
                      LAMBDA info :
                         IF ~info.ok THEN info
                         ELSE Returned([basic_stats |-> _get_basic_stats(r.value),
                                        file_info |-> info.value])))

\* analyze_file is called
CallAnalyzeFile(file_path) ==
    /\ pc = "start"
    /\ cmd' = [name |-> "analyze_file", file_path |-> file_path]
    /\ \E r \in {analyze_file(fs, dirs, file_path)} :
         /\ result' = Some(r)
         /\ pc' = IF r.ok THEN "returned" ELSE "raised"
    /\ UNCHANGED <<fs, dirs, transformer, loc, console, exit_code, before, io>>

\* format_output: csv.writer is given a list, which has no write method; the
\* other formats render the results (the rendering is kept as a pair)
format_output(data, format_type) ==
    IF format_type = "csv"
    THEN Raised("TypeError", <<"argument 1 must have a \"write\" method">>)
    ELSE Returned(<<format_type, data>>)

\* the bytes a rendering is written as: its length is all the model keeps
RenderedBytes(rendering) == <<123, 125>>

\* write_text_file as one step: every way it can end.  Each outcome is the
\* files and directories it leaves and what it returned or raised.
WriteOutcomes(files, directories, path, bytes) ==
    LET made == directories \cup (IF path.parent = <<>> THEN {} ELSE {DirOf(path.parent)})
        Out(f, d, r) == [fs |-> f, dirs |-> d, r |-> r]
        failed == Raised("OSError", PathStr(path))
    IN  (IF made # directories THEN {Out(files, directories, failed)} ELSE {})
        \cup {Out(files, made, failed)}
        \cup (IF CanOpen(made, path)
              THEN {Out(SetFile(files, FileOf(path), <<>>), made, failed),
                    Out(SetFile(files, FileOf(path), bytes), made, Returned(path))}
              ELSE {})

\* get_file_list: the entries of the working directory (with recursive, of
\* its directories too) whose name matches the pattern
Matches(name, pattern) ==
    CASE pattern = "*.txt" -> name[Len(name)] = ".txt"
      [] pattern = "nonexistent*.txt" -> name[1] = "nonexistent" /\ name[Len(name)] = ".txt"

get_file_list(files, directories, pattern, recursive) ==
    {MkPath("", e.parent, e.name) :
        e \in {x \in DOMAIN files \cup directories :
                 /\ recursive \/ x.parent = <<>>
                 /\ Matches(x.name, pattern)}}

\* the orders a set of paths may be listed in
Listings(S) ==
    {l \in [1..Cardinality(S) -> S] : \A i, j \in 1..Cardinality(S) : l[i] = l[j] => i = j}

\* d[key] = value on a dict kept as the sequence of its items
\* a dict made anew with the one item
DictSet_anew(d, key, value) == <<[key |-> key, value |-> value]>>

DictSet(d, key, value) ==
    IF \E i \in 1..Len(d) : d[i].key = key
    THEN [i \in 1..Len(d) |-> IF d[i].key = key THEN [key |-> key, value |-> value] ELSE d[i]]
    ELSE Append(d, [key |-> key, value |-> value])

(***************************************************************************)
(* The commands.  click checks the arguments before the command's function *)
(* runs and ends the process with code 2 when it rejects one; sys.exit(1)  *)
(* ends it with code 1; a command that returns ends it with code 0.        *)
(***************************************************************************)
\* cli.py lines 77-81: the choices of --operation
OperationChoices ==
    {"upper", "lower", "title", "sentence", "clean", "normalize", "remove_punctuation",
     "remove_numbers", "reverse", "sort_lines", "remove_empty_lines", "add_line_numbers"}

Printed(style, what) == [style |-> style, what |-> what]

\* the process ends with code 0 whatever it was given
Exit_zero(code, lines) ==
    /\ pc' = "exited"
    /\ exit_code' = Some(0)
    /\ console' = console \o lines

Exit(code, lines) ==
    /\ pc' = "exited"
    /\ exit_code' = Some(code)
    /\ console' = console \o lines

\* analyze, lines 39-71
CliAnalyze(file_path, output_format, save) ==
    /\ pc = "start"
    /\ cmd' = [name |-> "analyze", file_path |-> file_path,
               output_format |-> output_format, save |-> save]
    /\ UNCHANGED before
    /\ IF ~Exists(fs, dirs, file_path)
       THEN /\ Exit(2, <<Printed("usage", "Invalid value for 'FILE_PATH'")>>)
            /\ UNCHANGED <<fs, dirs>>
       ELSE \E results \in {analyze_file(fs, dirs, file_path)} :
            LET formatted == format_output(results.value, output_format)
                Failed == Exit(1, <<Printed("red", "Error analyzing file")>>)
            IN  IF ~results.ok
                THEN Failed /\ UNCHANGED <<fs, dirs>>
                ELSE IF output_format = "text" /\ save = None
                THEN /\ Exit(0, <<Printed("table", "Analysis Results")>>)
                     /\ UNCHANGED <<fs, dirs>>
                ELSE IF ~formatted.ok
                THEN Failed /\ UNCHANGED <<fs, dirs>>
                ELSE IF save = None
                THEN /\ Exit(0, <<Printed("plain", "formatted output")>>)
                     /\ UNCHANGED <<fs, dirs>>
                ELSE \E w \in WriteOutcomes(fs, dirs, save[1], RenderedBytes(formatted.value)) :
                       /\ fs' = w.fs
                       /\ dirs' = w.dirs
                       /\ IF w.r.ok
                          THEN Exit(0, <<Printed("plain", "Results saved")>>)
                          ELSE Failed
    /\ UNCHANGED <<transformer, loc, result, io>>

\* transform, lines 85-98: the arguments are checked, the transformer is
\* configured and transform_file is called
CliTransform(file_path, operation, output, preserve_original, backup_suffix) ==
    /\ pc = "start"
    /\ cmd' = [name |-> "transform", file_path |-> file_path, operation |-> operation,
               output_path |-> output, kwargs |-> NoKwargs]
    /\ UNCHANGED before
    /\ IF ~Exists(fs, dirs, file_path)
       THEN /\ Exit(2, <<Printed("usage", "Invalid value for 'FILE_PATH'")>>)
            /\ UNCHANGED transformer
       ELSE IF operation \notin OperationChoices
       THEN /\ Exit(2, <<Printed("usage", "Invalid value for '--operation'")>>)
            /\ UNCHANGED transformer
       ELSE /\ transformer' = [preserve_original |-> preserve_original,
                               backup_suffix |-> backup_suffix]
            /\ pc' = "tf_read"
            /\ UNCHANGED <<console, exit_code>>
    /\ UNCHANGED <<fs, dirs, loc, result, io>>

\* transform, lines 100-110: what the command does with the outcome
CliTransformDone ==
    /\ cmd.name = "transform"
    /\ pc \in {"returned", "raised"}
    /\ IF pc = "returned"
       THEN Exit(0, <<Printed("plain", "Transformation complete")>>
                    \o (IF transformer.preserve_original /\ cmd.output_path = None
                        THEN <<Printed("plain", "Original backed up")>> ELSE <<>>))
       ELSE Exit(1, <<Printed("red", "Error transforming file")>>)
    /\ UNCHANGED <<fs, dirs, cmd, transformer, loc, result, before, io>>

\* batch-analyze, lines 127-139: the files are listed
CliBatchAnalyze(pattern, recursive, output, format) ==
    /\ pc = "start"
    /\ cmd' = [name |-> "batch-analyze", pattern |-> pattern, recursive |-> recursive,
               output |-> output, format |-> format]
    /\ UNCHANGED before
    /\ LET found == get_file_list(fs, dirs, pattern, recursive)
       IN  IF found = {}
           THEN /\ Exit(1, <<Printed("red", "No files found matching pattern")>>)
                /\ UNCHANGED loc
           ELSE \E files \in Listings(found) :
                  /\ loc' = [files |-> files, i |-> 1, all_results |-> <<>>]
                  /\ console' = Append(console, Printed("plain", "Found files to process"))
                  /\ pc' = "batch_loop"
                  /\ UNCHANGED exit_code
    /\ UNCHANGED <<fs, dirs, transformer, result, io>>

\* lines 141-146: one turn of the loop
BatchFile ==
    /\ pc = "batch_loop"
    /\ loc.i <= Len(loc.files)
    /\ \E file_path \in {loc.files[loc.i]} :
       \E results \in {analyze_file(fs, dirs, file_path)} :
           IF results.ok
           THEN /\ loc' = [loc EXCEPT !.i = @ + 1,
                              !.all_results = DictSet(@, PathStr(file_path), results.value)]
                /\ UNCHANGED console
           ELSE /\ loc' = [loc EXCEPT !.i = @ + 1]
                /\ console' = Append(console, Printed("yellow", PathStr(file_path)))
    /\ UNCHANGED <<fs, dirs, cmd, transformer, pc, result, exit_code, before, io>>

\* lines 148-180: the combined results are saved or summed up
BatchDone ==
    /\ pc = "batch_loop"
    /\ loc.i > Len(loc.files)
    /\ LET formatted == format_output(loc.all_results, cmd.format)
           Failed == Exit(1, <<Printed("red", "Error in batch processing")>>)
       IN  IF cmd.output = None
           THEN /\ Exit(0, <<Printed("plain", "Batch Analysis Summary")>>)
                /\ UNCHANGED <<fs, dirs>>
           ELSE IF ~formatted.ok
           THEN Failed /\ UNCHANGED <<fs, dirs>>
           ELSE \E w \in WriteOutcomes(fs, dirs, cmd.output[1], RenderedBytes(formatted.value)) :
                  /\ fs' = w.fs
                  /\ dirs' = w.dirs
                  /\ IF w.r.ok
                     THEN Exit(0, <<Printed("plain", "Batch results saved")>>)
                     ELSE Failed
    /\ UNCHANGED <<cmd, transformer, loc, result, before, io>>

(***************************************************************************)
(* The files the program starts from, and the arguments it is given.       *)
(***************************************************************************)
ATxt == <<"a", ".txt">>
AFile == <<"a">>
BTxt == <<"b", ".txt">>
DTxt == <<"d", ".txt">>
OutDir == <<"out">>

Stale == <<111, 108, 100>>

Contents == SeqsUpTo(FileBytes, MaxFileLen)

BackupSuffixes == {<<".bak">>, <<"_bak">>, <<>>}

\* the files where a backup of a.txt or of a may be written
BackupFiles ==
    LET pairs == {q \in {ATxt, AFile} \X (BackupSuffixes \ {<<>>}) :
                    BackupPath(Rel(q[1]), q[2]).ok}
    IN  {FileOf(BackupPath(Rel(q[1]), q[2]).value) : q \in pairs}

\* a.txt and a hold the content c, or are missing; a crowded directory also
\* holds b.txt, stale backups, the directory d.txt and the directory out
InitialFiles(c, crowded) ==
    LET sources == IF c = None THEN {} ELSE {FileOf(Rel(ATxt)), FileOf(Rel(AFile))}
        others == IF crowded
                  THEN BackupFiles \cup {FileOf(Rel(BTxt)), FileOf(MkPath("", OutDir, BTxt))}
                  ELSE {}
    IN  [f \in sources \cup others |-> IF f \in sources THEN c[1] ELSE Stale]

InitialDirs(crowded) == IF crowded THEN {DirOf(DTxt), DirOf(OutDir)} ELSE {}

Init ==
    /\ \E c \in {None} \cup {Some(bs) : bs \in Contents}, crowded \in BOOLEAN :
         /\ fs = InitialFiles(c, crowded)
         /\ dirs = InitialDirs(crowded)
    /\ cmd = [name |-> "none"]
    /\ transformer = [preserve_original |-> TRUE, backup_suffix |-> <<".bak">>]
    /\ pc = "start"
    /\ loc = NoLocals
    /\ result = None
    /\ console = <<>>
    /\ exit_code = None
    /\ before = [fs |-> fs, dirs |-> dirs]
    /\ io = <<>>

Transformers == [preserve_original : BOOLEAN, backup_suffix : BackupSuffixes]

SourcePaths == {Rel(ATxt), Rel(AFile)}

\* the output paths a call on file_path is given: none, the input path
\* itself, the absolute spelling of the input path, a file in the directory
\* out, and the place of the backup
OutputPaths(self, file_path) ==
    LET bp == BackupPath(file_path, self.backup_suffix)
    IN  {None, Some(file_path), Some([file_path EXCEPT !.anchor = "/w/"]),
         Some(MkPath("", OutDir, BTxt))}
        \cup (IF bp.ok THEN {Some(bp.value)} ELSE {})

OperationInputs == OperationChoices \cup {"unknown_operation", "UPPER"}

CliPaths == {Rel(ATxt), Rel(AFile), Rel(DTxt)}

CliOutputs == {None, Some(MkPath("", OutDir, BTxt))}

Next ==
    \/ \E file_path \in CliPaths, output_format \in {"text", "json", "csv"},
          save \in CliOutputs :
         CliAnalyze(file_path, output_format, save)
    \/ \E self \in Transformers, file_path \in CliPaths, output \in CliOutputs,
          operation \in OperationChoices \cup {"unknown_operation"} :
         CliTransform(file_path, operation, output, self.preserve_original,
                      self.backup_suffix)
    \/ CliTransformDone
    \/ \E pattern \in {"*.txt", "nonexistent*.txt"}, recursive \in BOOLEAN,
          output \in CliOutputs, format \in {"json", "csv"} :
         CliBatchAnalyze(pattern, recursive, output, format)
    \/ BatchFile
    \/ BatchDone
    \/ \E file_path \in CliPaths : CallAnalyzeFile(file_path)
    \/ \E self \in Transformers, file_path \in SourcePaths, operation \in OperationInputs :
         \E output_path \in OutputPaths(self, file_path) :
            CallTransformFile(self, file_path, operation, output_path)
    \/ TfRead
    \/ TfTransform
    \/ TfBackup
    \/ TfBackupWrite
    \/ TfWrite
    \/ TfWriteData

Spec == Init /\ [][Next]_vars

(***************************************************************************)
(* What the claims speak of.                                               *)
(***************************************************************************)
IsTransformCall == cmd.name \in {"transform_file", "transform"}

\* path + suffix: the suffix appended to the whole name
Appended(path, suffix) == [path EXCEPT !.name = @ \o suffix]

\* the file at path reads as text
Holds(files, directories, path, text) ==
    /\ FileOf(path) \in DOMAIN files
    /\ read_text_file(files, directories, path) = Returned(text)

\* the file at path is as it was when the process began
Untouched(path) ==
    /\ FileOf(path) \in DOMAIN fs <=> FileOf(path) \in DOMAIN before.fs
    /\ FileOf(path) \in DOMAIN fs => fs[FileOf(path)] = before.fs[FileOf(path)]

\* the content of the source when the process began, as the program reads it
Original == read_text_file(before.fs, before.dirs, cmd.file_path)

\* the source content transformed
Transformed == transform_text(Original.value, cmd.operation, NoKwargs)

\* the destination of the call in the claims' words: the output path, or
\* the source path when none is given
Destination == IF cmd.output_path = None THEN cmd.file_path ELSE cmd.output_path[1]

InPlaceWithBackup == transformer.preserve_original /\ Destination = cmd.file_path

BackupPlace == Appended(cmd.file_path, transformer.backup_suffix)

Wrote(role) == \E i \in 1..Len(io) : io[i].role = role /\ io[i].op = "write"

Opened(role) == \E i \in 1..Len(io) : io[i].role = role /\ io[i].op = "open"

TwelveNames ==
    {"upper", "lower", "title", "sentence", "clean", "normalize", "remove_punctuation",
     "remove_numbers", "reverse", "sort_lines", "remove_empty_lines", "add_line_numbers"}

\* C1: a successful transform_file with no output path and preserve_original
\* set leaves the source holding the transformed content, a file at
\* source + suffix holding the original content, and returns the source
\* path, for every backup suffix.
C1_InPlaceLeavesBackup ==
    (IsTransformCall /\ pc = "returned" /\ cmd.output_path = None
        /\ transformer.preserve_original)
    => /\ Holds(fs, dirs, cmd.file_path, Transformed.value)
       /\ Holds(fs, dirs, BackupPlace, Original.value)
       /\ result = Some(Returned(cmd.file_path))

\* C2: in an in-place transform_file with backup enabled, once the
\* destination write has started the backup has been written before it and
\* the backup file holds the content the source had before the call.
C2_BackupPrecedesWrite ==
    (IsTransformCall /\ InPlaceWithBackup /\ Opened("destination"))
    => /\ \E i, j \in 1..Len(io) :
             /\ i < j
             /\ io[i].role = "backup" /\ io[i].op = "write"
             /\ io[j].role = "destination" /\ io[j].op = "open"
             /\ \A k \in 1..j - 1 : io[k].role = "backup"
       /\ Holds(fs, dirs, BackupPlace, Original.value)

\* C3: with an output path that is not equal to the source path the source
\* file is never modified; on success the output path holds the transformed
\* content and is what the call returns.
C3_CopyLeavesSource ==
    (IsTransformCall /\ cmd.output_path # None /\ cmd.output_path[1] # cmd.file_path)
    => /\ Untouched(cmd.file_path)
       /\ pc = "returned" =>
            /\ Holds(fs, dirs, cmd.output_path[1], Transformed.value)
            /\ result = Some(Returned(cmd.output_path[1]))

\* C4: when the operation name is not registered, transform_file leaves the
\* file system as it was: no file is changed or created, no directory is made.
C4_UnknownOperationTouchesNothing ==
    (IsTransformCall /\ cmd.operation \notin TwelveNames)
    => /\ fs = before.fs
       /\ dirs = before.dirs
       /\ io = <<>>
       /\ pc \notin {"tf_backup", "tf_backup_write", "tf_write", "tf_write_data", "returned"}

\* an unregistered operation on a readable source has been refused
C4_Refused ==
    /\ cmd.name = "transform_file"
    /\ cmd.operation = "unknown_operation"
    /\ cmd.output_path = Some(MkPath("", OutDir, BTxt))
    /\ transformer.preserve_original
    /\ Original.ok /\ Original.value # <<>>
    /\ pc = "raised"

\* C5: transform_text accepts exactly the twelve names; for any other name
\* it raises the unknown-operation error, whose text names the rejected
\* operation and every one of the twelve valid names.
C5_ExactlyTwelveOperations ==
    (cmd.name = "transform_file" /\ Original.ok)
    => /\ (cmd.operation \in TwelveNames /\ pc = "raised")
            => ~(result[1].exc = "ValueError" /\ result[1].msg[1] = "Unknown operation '")
       /\ (cmd.operation \notin TwelveNames /\ pc \notin {"tf_read", "tf_transform"})
            => /\ pc = "raised"
               /\ result[1].exc = "ValueError"
               /\ \E i \in 1..Len(result[1].msg) : result[1].msg[i] = cmd.operation
               /\ \A n \in TwelveNames :
                     \E i \in 1..Len(result[1].msg) : result[1].msg[i] = n

\* a name that differs from a registered one by its case has been refused,
\* with the message that names it
C5_RefusedByCase ==
    /\ cmd.name = "transform_file"
    /\ cmd.operation = "UPPER"
    /\ pc = "raised"
    /\ result[1].exc = "ValueError"
    /\ result[1].msg[2] = "UPPER"

\* C6: at every point during and after an in-place transform_file with
\* backup enabled, whichever step fails and for every backup suffix, the
\* content the source held before the call is held in full by the source
\* file or by the backup file.
C6_OriginalRecoverable ==
    (IsTransformCall /\ InPlaceWithBackup /\ Original.ok)
    => \/ Holds(fs, dirs, cmd.file_path, Original.value)
       \/ Holds(fs, dirs, BackupPlace, Original.value)

\* C7 as claimed: a backup is written if and only if preserve_original is
\* set and the destination equals the source path; otherwise no file at
\* source + suffix is created or modified, and the destination is written
\* with the transformed text.
C7_AsClaimed ==
    IsTransformCall
    => /\ pc = "returned" => (Wrote("backup") <=> InPlaceWithBackup)
       /\ ~InPlaceWithBackup =>
            /\ ~Opened("backup")
            /\ Untouched(BackupPlace)
            /\ pc = "returned" => Holds(fs, dirs, Destination, Transformed.value)

\* C7, amended: a backup is written if and only if preserve_original is set
\* and the destination equals the source path; otherwise no backup is
\* written, the file at source + suffix is created or modified only if it is
\* the destination file itself, and the destination is written with the
\* transformed text.
C7_BackupOnlyInPlace ==
    IsTransformCall
    => /\ pc = "returned" => (Wrote("backup") <=> InPlaceWithBackup)
       /\ ~InPlaceWithBackup =>
            /\ ~Opened("backup")
            /\ FileOf(BackupPlace) # FileOf(Destination) => Untouched(BackupPlace)
            /\ pc = "returned" => Holds(fs, dirs, Destination, Transformed.value)

\* a copy made with preserve_original set: the destination holds the changed
\* text and the backup's place is as it was
C7_CopyWithoutBackup ==
    /\ IsTransformCall
    /\ pc = "returned"
    /\ transformer.preserve_original
    /\ transformer.backup_suffix # <<>>
    /\ Destination # cmd.file_path
    /\ FileOf(BackupPlace) # FileOf(Destination)
    /\ Transformed.value # Original.value
    /\ Holds(fs, dirs, Destination, Transformed.value)
    /\ io # <<>>

\* C8: transform_file and analyze_file on a source path that does not exist
\* fail with FileNotFoundError before anything else happens: nothing is
\* written, no directory is made.
C8_MissingSourceFailsFirst ==
    (cmd.name \in {"transform_file", "analyze_file"}
        /\ ~Exists(before.fs, before.dirs, cmd.file_path))
    => /\ fs = before.fs
       /\ dirs = before.dirs
       /\ io = <<>>
       /\ pc \in {"tf_read", "raised"}
       /\ pc = "raised" => result[1].exc = "FileNotFoundError"

\* transform_file has failed on a source that is not there, in a directory
\* that holds other files
C8_MissingSourceRefused ==
    /\ cmd.name = "transform_file"
    /\ ~Exists(before.fs, before.dirs, cmd.file_path)
    /\ before.fs # <<>>
    /\ cmd.operation = "upper"
    /\ pc = "raised"
    /\ result[1].exc = "FileNotFoundError"

\* the items of all_results and the warnings printed, in order
ResultKeys == [i \in 1..Len(loc.all_results) |-> loc.all_results[i].key]

Warnings ==
    LET yellow == SelectSeq(console, LAMBDA line : line.style = "yellow")
    IN  [i \in 1..Len(yellow) |-> yellow[i].what]

\* files[1..n] split into those analyze_file succeeds on and the others
Analyzable(files, n) ==
    SelectSeq(SubSeq(files, 1, n),
              LAMBDA f : read_text_file(before.fs, before.dirs, f).ok)

NotAnalyzable(files, n) ==
    SelectSeq(SubSeq(files, 1, n),
              LAMBDA f : ~read_text_file(before.fs, before.dirs, f).ok)

\* C9: batch-analyze goes through the listed files in order; a file that
\* fails is reported with a warning and does not stop the batch: every file
\* that does not fail is in the combined results with its analysis, every
\* file that fails has its warning, and the loop reaches the end of the list.
C9_BatchGoesOn ==
    (cmd.name = "batch-analyze" /\ (pc = "batch_loop" \/ (pc = "exited" /\ loc # NoLocals)))
    => LET done == loc.i - 1
           good == Analyzable(loc.files, done)
           bad == NotAnalyzable(loc.files, done)
       IN  /\ pc = "exited" => done = Len(loc.files)
           /\ ResultKeys = [i \in 1..Len(good) |-> PathStr(good[i])]
           /\ Warnings = [i \in 1..Len(bad) |-> PathStr(bad[i])]
           /\ \A i \in 1..Len(good) :
                 loc.all_results[i].value.basic_stats =
                    _get_basic_stats(read_text_file(before.fs, before.dirs, good[i]).value)

\* a batch has ended in which a file failed and a file listed after it was
\* analyzed
C9_WentOnAfterFailure ==
    /\ cmd.name = "batch-analyze"
    /\ pc = "exited"
    /\ loc # NoLocals
    /\ \E i, j \in 1..Len(loc.files) :
          /\ i < j
          /\ ~read_text_file(before.fs, before.dirs, loc.files[i]).ok
          /\ \E k \in 1..Len(loc.all_results) :
                loc.all_results[k].key = PathStr(loc.files[j])
    /\ Len(loc.all_results) >= 2

\* an error is what a command prints in red, or what click prints when it
\* rejects an argument; the yellow line for a file a batch skips is a warning
ErrorsReported == \E i \in 1..Len(console) : console[i].style \in {"red", "usage"}

\* C10: analyze, transform and batch-analyze exit with code 0 when they
\* succeed and with another code whenever they report an error (a missing
\* file, an unknown operation, no file matched); a pattern that matches no
\* file ends the batch before any file is processed.
C10_ExitCodes ==
    (pc = "exited" /\ cmd.name \in {"analyze", "transform", "batch-analyze"})
    => /\ exit_code # None
       /\ exit_code = Some(0) <=> ~ErrorsReported
       /\ cmd.name = "transform" => (exit_code = Some(0) <=> (result # None /\ result[1].ok))
       /\ (cmd.name \in {"analyze", "transform"}
              /\ ~Exists(before.fs, before.dirs, cmd.file_path)) => exit_code # Some(0)
       /\ (cmd.name = "transform" /\ cmd.operation \notin TwelveNames) => exit_code # Some(0)
       /\ (cmd.name = "analyze" /\ exit_code = Some(0) /\ cmd.save # None)
              => FileOf(cmd.save[1]) \in DOMAIN fs /\ fs[FileOf(cmd.save[1])] # <<>>
       /\ (cmd.name = "batch-analyze"
              /\ get_file_list(before.fs, before.dirs, cmd.pattern, cmd.recursive) = {})
              => /\ exit_code # Some(0)
                 /\ loc = NoLocals
                 /\ ~\E i \in 1..Len(console) : console[i].style = "yellow"

\* a batch whose pattern matched no file has ended with code 1
C10_NoFilesMatched ==
    /\ cmd.name = "batch-analyze"
    /\ pc = "exited"
    /\ get_file_list(before.fs, before.dirs, cmd.pattern, cmd.recursive) = {}
    /\ exit_code = Some(1)
    /\ ErrorsReported

(***************************************************************************)
(* transform_text by itself: the text is drawn when the process begins,    *)
(* the operation and its options when transform_text is called; the        *)
(* outcome may be given to the same operation a second time.  io keeps the  *)
(* calls made, in order.                                                   *)
(***************************************************************************)
MaxTextLen == 3

\* letters of both cases, the space, the newline and the tab
LayoutChars == {97, 65, 32, 10, 9}

\* a letter, the space, the newline, the full stop and the comma
MarkChars == {97, 32, 10, 46, 44}

\* a letter, the apostrophe, the backtick, and the curly quotes U+201C, U+2019
QuoteChars == {97, 39, 96, 8220, 8217}

\* a digit, a letter and the space
DigitChars == {49, 97, 32}

TextInputs ==
    SeqsUpTo(LayoutChars, MaxTextLen) \cup SeqsUpTo(MarkChars, MaxTextLen)
        \cup SeqsUpTo(QuoteChars, MaxTextLen) \cup SeqsUpTo(DigitChars, MaxTextLen + 3)

\* the options an operation is called with: options it documents, options
\* that clean documents given to normalize, and an option none documents
KwargsInputs(operation) ==
    CASE operation = "reverse" ->
           {NoKwargs, [by_lines |-> TRUE], [by_words |-> TRUE],
            [by_lines |-> TRUE, by_words |-> TRUE], [verbose |-> TRUE]}
      [] operation = "sort_lines" ->
           [{"reverse", "ignore_case", "remove_duplicates"} -> BOOLEAN]
               \cup {[verbose |-> TRUE]}
      [] operation = "add_line_numbers" ->
           {NoKwargs, [start |-> 0], [start |-> 9], [start |-> 0 - 10],
            [start |-> 9, separator |-> <<46>>], [start |-> 9, width |-> 3],
            [start |-> 99, width |-> 1], [verbose |-> TRUE]}
      [] operation = "remove_numbers" ->
           {NoKwargs, [keep_years |-> TRUE], [verbose |-> TRUE]}
      [] operation = "clean" ->
           {NoKwargs, [remove_empty_lines |-> TRUE], [verbose |-> TRUE]}
      [] operation = "normalize" ->
           {NoKwargs, [fix_punctuation |-> FALSE], [standardize_quotes |-> FALSE],
            [verbose |-> TRUE], [strip_lines |-> FALSE], [normalize_spaces |-> FALSE],
            [remove_empty_lines |-> TRUE]}
      [] OTHER -> {NoKwargs, [verbose |-> TRUE]}

Call(text, operation, kwargs) ==
    [text |-> text, operation |-> operation, kwargs |-> kwargs,
     outcome |-> transform_text(text, operation, kwargs)]

TextInit ==
    /\ \E text \in TextInputs : cmd = [name |-> "transform_text", text |-> text]
    /\ fs = <<>>
    /\ dirs = {}
    /\ transformer = [preserve_original |-> TRUE, backup_suffix |-> <<".bak">>]
    /\ pc = "start"
    /\ loc = NoLocals
    /\ result = None
    /\ console = <<>>
    /\ exit_code = None
    /\ before = [fs |-> fs, dirs |-> dirs]
    /\ io = <<>>

\* transform_text(text, operation, **kwargs) is called on the text
CallTransformText(operation, kwargs) ==
    /\ pc = "start"
    /\ \E call \in {Call(cmd.text, operation, kwargs)} :
         /\ io' = <<call>>
         /\ result' = Some(call.outcome)
         /\ pc' = IF call.outcome.ok THEN "returned" ELSE "raised"
    /\ UNCHANGED <<fs, dirs, cmd, transformer, loc, console, exit_code, before>>

\* the text returned is given to the same operation, with the same options
CallTransformTextAgain ==
    /\ pc = "returned"
    /\ Len(io) = 1
    /\ \E call \in {Call(io[1].outcome.value, io[1].operation, io[1].kwargs)} :
         /\ io' = Append(io, call)
         /\ result' = Some(call.outcome)
         /\ pc' = IF call.outcome.ok THEN "returned" ELSE "raised"
    /\ UNCHANGED <<fs, dirs, cmd, transformer, loc, console, exit_code, before>>

\* analyze_text(text, include_readability) is called on the text
CallAnalyzeText(include_readability) ==
    /\ pc = "start"
    /\ \E results \in {analyze_text(cmd.text, include_readability)} :
         /\ io' = <<[text |-> cmd.text, operation |-> "analyze_text",
                     kwargs |-> [include_readability |-> include_readability],
                     outcome |-> Returned(results)]>>
         /\ result' = Some(Returned(results))
    /\ pc' = "analyzed"
    /\ UNCHANGED <<fs, dirs, cmd, transformer, loc, console, exit_code, before>>

TextNext ==
    \/ \E operation \in OperationChoices :
          \E kwargs \in KwargsInputs(operation) : CallTransformText(operation, kwargs)
    \/ CallTransformTextAgain
    \/ \E include_readability \in BOOLEAN : CallAnalyzeText(include_readability)

TextSpec == TextInit /\ [][TextNext]_vars

(***************************************************************************)
(* What the claims about transform_text speak of.                          *)
(***************************************************************************)
\* the first call made was of the operation, and the second if there is one
Called(operation) == Len(io) >= 1 /\ io[1].operation = operation

\* an option of the first call that is set to true
Flag(key) == KwGet(io[1].kwargs, key, FALSE)

\* the lines of a text: what stands between its newlines
LinesOf(text) == Split(text, 10)

\* the first call made was of the operation, with no option given
CalledWithDefaults(operation) == Called(operation) /\ io[1].kwargs = NoKwargs

\* a line with a character that is no whitespace
NotBlank(line) == \E i \in 1..Len(line) : ~IsSpace(line[i])

\* C11: for every text T, reverse in character mode applied twice returns T.
C11_ReverseTwice ==
    (Len(io) = 2 /\ Called("reverse") /\ ~Flag("by_lines") /\ ~Flag("by_words"))
    => io[2].outcome = Returned(io[1].text)

\* reverse has been applied twice to a text that is not its own reverse
C11_ReversedAndBack ==
    /\ Len(io) = 2 /\ Called("reverse") /\ ~Flag("by_lines") /\ ~Flag("by_words")
    /\ Len(io[1].text) = 3
    /\ io[1].outcome.value # io[1].text
    /\ io[2].outcome.value = io[1].text

\* C12: remove_empty_lines is idempotent and keeps the order: applied twice
\* it gives what it gives applied once, and its output is the lines of T
\* that are not empty or whitespace-only, in their order.
C12_RemoveEmptyLines ==
    Called("remove_empty_lines")
    => LET kept == SelectSeq(LinesOf(io[1].text), NotBlank)
           out == io[1].outcome.value
       IN  /\ io[1].outcome.ok
           /\ IF kept = <<>> THEN out = <<>> ELSE LinesOf(out) = kept
           /\ Len(io) = 2 => io[2].outcome = io[1].outcome

\* remove_empty_lines has been applied twice to a text with a whitespace-only
\* line before a line that is kept
C12_BlankLineDropped ==
    /\ Len(io) = 2 /\ Called("remove_empty_lines")
    /\ LET lines == LinesOf(io[1].text)
       IN  /\ Len(lines) = 2
           /\ lines[1] # <<>> /\ ~NotBlank(lines[1])
           /\ NotBlank(lines[2])
    /\ io[2].outcome.value = LinesOf(io[1].text)[2]

\* the sort order in use: a comes before b, by the lines themselves or, with
\* ignore_case, by the lines in lower case; turned round with reverse
ComesBefore(a, b) ==
    LET Key(line) == IF Flag("ignore_case") THEN MapChars(line, LowerCh) ELSE line
    IN  IF Flag("reverse") THEN StrLess(Key(b), Key(a)) ELSE StrLess(Key(a), Key(b))

SameLines(out, text) ==
    /\ \A i, j \in 1..Len(out) : out[i] = out[j] => i = j
    /\ {out[i] : i \in 1..Len(out)} = {text[i] : i \in 1..Len(text)}

\* C13 as claimed: for every setting of reverse and ignore_case, sort_lines
\* with remove_duplicates yields lines that are strictly increasing (strictly
\* decreasing with reverse) under the sort order in use, with no repeated
\* line and with exactly the distinct lines of T.
C13_AsClaimed ==
    (Called("sort_lines") /\ Flag("remove_duplicates"))
    => LET out == LinesOf(io[1].outcome.value)
       IN  /\ io[1].outcome.ok
           /\ \A i \in 1..(Len(out) - 1) : ComesBefore(out[i], out[i + 1])
           /\ SameLines(out, LinesOf(io[1].text))

\* C13, amended: sort_lines with remove_duplicates yields lines in which no
\* line comes before its predecessor under the sort order in use (strictly
\* increasing, or decreasing with reverse, when ignore_case is not set), with
\* no repeated line and with exactly the distinct lines of T.
C13_SortedWithoutDuplicates ==
    (Called("sort_lines") /\ Flag("remove_duplicates"))
    => LET out == LinesOf(io[1].outcome.value)
       IN  /\ io[1].outcome.ok
           /\ \A i \in 1..(Len(out) - 1) :
                 /\ ~ComesBefore(out[i + 1], out[i])
                 /\ ~Flag("ignore_case") => ComesBefore(out[i], out[i + 1])
           /\ SameLines(out, LinesOf(io[1].text))

\* two lines that differ only by case have been sorted without regard to
\* case, with the duplicates removed: both are kept, in the order given
C13_CaseVariantsKept ==
    /\ Called("sort_lines") /\ Flag("remove_duplicates") /\ Flag("ignore_case")
    /\ ~Flag("reverse")
    /\ io[1].text = <<97, 10, 65>>
    /\ io[1].outcome.value = <<97, 10, 65>>

\* the number of digits of an integer, its sign not counted
DigitCount(n) == Len(DigitsOf(IF n < 0 THEN 0 - n ELSE n))

Spaces(n) == [i \in 1..n |-> 32]

DigitRuns(text) ==
    LET starts == {i \in 1..Len(text) :
                     IsDigit(text[i]) /\ ~(i > 1 /\ IsDigit(text[i - 1]))}
        RunAt(i) == CHOOSE k \in 1..(Len(text) - i + 1) :
                       /\ \A j \in i..(i + k - 1) : IsDigit(text[j])
                       /\ ~(i + k <= Len(text) /\ IsDigit(text[i + k]))
        runs[i \in 1..(Len(text) + 1)] ==
            IF i > Len(text) THEN <<>>
            ELSE (IF i \in starts THEN <<RunAt(i)>> ELSE <<>>) \o runs[i + 1]
    IN  runs[1]

\* C15: with keep_years, remove_numbers keeps every maximal digit run of
\* exactly 4 digits and removes every maximal digit run of 1 to 3 and of 5 or
\* more digits, wherever the run stands (next to letters too); without
\* keep_years the output has no digit at all.
C15_KeepsOnlyYears ==
    Called("remove_numbers")
    => /\ io[1].outcome.ok
       /\ IF Flag("keep_years")
          THEN DigitRuns(io[1].outcome.value)
                  = SelectSeq(DigitRuns(io[1].text), LAMBDA k : k = 4)
          ELSE DigitRuns(io[1].outcome.value) = <<>>

\* one of the marks , . ! ? ; :
IsPunctuationMark(c) == c \in {44, 46, 33, 63, 59, 58}

\* every run of whitespace that stands just before a mark is deleted
WithoutSpaceBeforeMarks(text) ==
    LET BeforeMark(i) ==
            \E j \in (i + 1)..Len(text) :
               /\ IsPunctuationMark(text[j])
               /\ \A k \in i..(j - 1) : IsSpace(text[k])
    IN  SelectSeq([i \in 1..Len(text) |-> IF BeforeMark(i) THEN <<>> ELSE <<text[i]>>],
                  LAMBDA piece : piece # <<>>)

\* one space is put after every mark that a character that is no whitespace
\* follows
WithSpaceAfterMarks(text) ==
    Concat([i \in 1..Len(text) |->
              IF IsPunctuationMark(text[i]) /\ i < Len(text) /\ ~IsSpace(text[i + 1])
              THEN <<text[i], 32>> ELSE <<text[i]>>])

\* the quote variants: the curly double and single quotes, the apostrophe
\* and the backtick
IsQuoteVariant(c) == c \in {8220, 8221, 8216, 8217, 39, 96}

WithStandardQuotes(text) ==
    [i \in 1..Len(text) |-> IF IsQuoteVariant(text[i]) THEN 34 ELSE text[i]]

\* C16: normalize with default options is: clean with its defaults; then
\* every run of whitespace just before one of , . ! ? ; : is deleted; then
\* one space is put after each of those marks that a character that is no
\* whitespace follows; then the quotes are standardized.
C16_NormalizeReference ==
    CalledWithDefaults("normalize")
    => LET cleaned == transform_text(io[1].text, "clean", NoKwargs).value
           spaced == WithSpaceAfterMarks(Concat(WithoutSpaceBeforeMarks(cleaned)))
       IN  io[1].outcome = Returned(WithStandardQuotes(spaced))

\* C17: with standardize_quotes (the default) the output of normalize has no
\* curly double quote, no curly single quote, no apostrophe and no backtick:
\* every such quote variant of the input is replaced by a straight double quote.
C17_QuotesStandardized ==
    CalledWithDefaults("normalize")
    => LET out == io[1].outcome.value
           Count(text, In(_)) == Cardinality({i \in 1..Len(text) : In(text[i])})
           IsQuote(c) == c = 34 \/ IsQuoteVariant(c)
       IN  /\ io[1].outcome.ok
           /\ \A i \in 1..Len(out) : ~IsQuoteVariant(out[i])
           /\ Count(out, LAMBDA c : c = 34) = Count(io[1].text, IsQuote)

C19_EmptyText ==
    Len(io) >= 1
    => /\ (io[1].text = <<>> /\ io[1].kwargs = NoKwargs) => io[1].outcome.ok
       /\ (io[1].text = <<>> /\ io[1].operation = "sentence")
             => io[1].outcome = Returned(<<>>)
       /\ (io[1].text # <<>> /\ io[1].operation = "sentence")
             => io[1].outcome =
                   Returned(transform_text(<<io[1].text[1]>>, "upper", NoKwargs).value
                            \o transform_text(Tail(io[1].text), "lower", NoKwargs).value)

\* sentence has been applied to the empty string
C19_SentenceOfEmpty ==
    /\ Called("sentence")
    /\ io[1].text = <<>>
    /\ io[1].outcome = Returned(<<>>)
    /\ pc = "returned"

\* the tokens of a text: its maximal runs of characters that are no
\* whitespace, in order
Tokens(text) ==
    LET starts == {i \in 1..Len(text) :
                     ~IsSpace(text[i]) /\ ~(i > 1 /\ ~IsSpace(text[i - 1]))}
        EndOf(i) == CHOOSE j \in i..Len(text) :
                       /\ \A k \in i..j : ~IsSpace(text[k])
                       /\ ~(j < Len(text) /\ ~IsSpace(text[j + 1]))
        tokens[i \in 1..(Len(text) + 1)] ==
            IF i > Len(text) THEN <<>>
            ELSE (IF i \in starts THEN <<SubSeq(text, i, EndOf(i))>> ELSE <<>>)
                 \o tokens[i + 1]
    IN  tokens[1]

\* C20: reverse takes its mode from the flags: with by_lines it reverses the
\* order of the lines and leaves each line as it is, also when by_words is
\* set; with by_words alone it gives the whitespace-delimited tokens in
\* reverse order, joined by single spaces; with neither it reverses the
\* characters.
C20_ReverseModes ==
    Called("reverse")
    => LET text == io[1].text
           out == io[1].outcome.value
       IN  /\ io[1].outcome.ok
           /\ Flag("by_lines") =>
                 /\ Len(LinesOf(out)) = Len(LinesOf(text))
                 /\ \A k \in 1..Len(LinesOf(text)) :
                       LinesOf(out)[k] = LinesOf(text)[Len(LinesOf(text)) + 1 - k]
           /\ (Flag("by_words") /\ ~Flag("by_lines")) =>
                 LET tokens == Tokens(text)
                 IN  /\ Tokens(out) = [k \in 1..Len(tokens) |-> tokens[Len(tokens) + 1 - k]]
                     /\ Len(out) = Len(Concat(tokens))
                                      + (IF tokens = <<>> THEN 0 ELSE Len(tokens) - 1)
                     /\ \A i \in 1..Len(out) : IsSpace(out[i]) => out[i] = 32
           /\ (~Flag("by_words") /\ ~Flag("by_lines")) =>
                 /\ Len(out) = Len(text)
                 /\ \A i \in 1..Len(text) : out[i] = text[Len(text) + 1 - i]

\* reverse has been called with both flags on two lines that hold different
\* words: the lines have changed places
C20_LinesBeforeWords ==
    /\ Called("reverse") /\ Flag("by_lines") /\ Flag("by_words")
    /\ io[1].text = <<97, 10, 65>>
    /\ io[1].outcome.value = <<65, 10, 97>>

\* the one-to-one arrangements of the places 1..n
Arrangements(n) == {p \in [1..n -> 1..n] : \A i, j \in 1..n : p[i] = p[j] => i = j}

\* C21: for every text T, sort_lines without remove_duplicates yields T's
\* lines, each as often as T has it, with no line before a line that comes
\* before it under the key in use (the line, or the line in lower case with
\* ignore_case; the order turned round with reverse), and lines of equal keys
\* in the order T has them.
C21_StableSort ==
    (Called("sort_lines") /\ ~Flag("remove_duplicates"))
    => LET lines == LinesOf(io[1].text)
           out == LinesOf(io[1].outcome.value)
       IN  /\ io[1].outcome.ok
           /\ Len(out) = Len(lines)
           /\ \E p \in Arrangements(Len(lines)) :
                 /\ \A k \in 1..Len(out) : out[k] = lines[p[k]]
                 /\ \A k \in 1..(Len(out) - 1) :
                       /\ ~ComesBefore(out[k + 1], out[k])
                       /\ ~ComesBefore(out[k], out[k + 1]) => p[k] < p[k + 1]

\* two lines that differ only by case have been sorted in descending order
\* without regard to case: they stay in the order given
C21_EqualKeysKeepOrder ==
    /\ Called("sort_lines") /\ ~Flag("remove_duplicates")
    /\ Flag("ignore_case") /\ Flag("reverse")
    /\ io[1].text = <<97, 10, 65>>
    /\ io[1].outcome.value = <<97, 10, 65>>

\* analyze_text has been called on the text
Analyzed == pc = "analyzed" /\ Len(io) = 1

\* C22: every statistics reducer applied to the empty text returns zero-valued
\* results: every count of basic_stats, word_analysis, sentence_analysis and
\* character_analysis is 0, the averages are 0.0, and the longest and shortest
\* strings and the frequency map are empty.
C22_EmptyTextZeroes ==
    (Analyzed /\ io[1].text = <<>>)
    => /\ io[1].outcome.ok
       /\ LET results == io[1].outcome.value
          IN  /\ \A k \in DOMAIN results.basic_stats : results.basic_stats[k] = 0
              /\ results.word_analysis =
                    [unique_words |-> 0, average_word_length |-> Quotient(0, 1),
                     longest_word |-> <<>>, shortest_word |-> <<>>,
                     word_frequency |-> <<>>]
              /\ results.sentence_analysis =
                    [sentence_count |-> 0, average_sentence_length |-> Quotient(0, 1),
                     longest_sentence |-> <<>>, shortest_sentence |-> <<>>]
              /\ \A k \in DOMAIN results.character_analysis :
                    results.character_analysis[k] = 0

\* the bytes of the source file when the process began
SourceBytes == before.fs[FileOf(cmd.file_path)]

\* transform_file has read a source that is a regular file
HasReadSource ==
    /\ cmd.name = "transform_file"
    /\ pc \notin {"start", "tf_read"}
    /\ FileOf(cmd.file_path) \in DOMAIN before.fs

DocumentedOptions(operation) ==
    CASE operation = "clean" -> {"normalize_spaces", "strip_lines", "remove_empty_lines"}
      [] operation = "normalize" -> {"fix_punctuation", "standardize_quotes"}
      [] operation = "remove_punctuation" -> {"keep_periods", "keep_apostrophes"}
      [] operation = "remove_numbers" -> {"keep_years"}
      [] operation = "reverse" -> {"by_words", "by_lines"}
      [] operation = "sort_lines" -> {"reverse", "ignore_case", "remove_duplicates"}
      [] operation = "add_line_numbers" -> {"start", "width", "separator"}
      [] OTHER -> {}

\* the options of a call without those its operation does not document
WithoutUndocumented(operation, kwargs) ==
    [key \in DOMAIN kwargs \cap DocumentedOptions(operation) |-> kwargs[key]]

\* C24: for every operation, the option keys that are not among its
\* documented options are ignored: the call raises nothing and returns what
\* the same call without them returns.
C24_UndocumentedOptionsIgnored ==
    (Len(io) >= 1 /\ io[1].operation \in OperationChoices)
    => /\ io[1].outcome.ok
       /\ io[1].outcome =
             transform_text(io[1].text, io[1].operation,
                            WithoutUndocumented(io[1].operation, io[1].kwargs))

(***************************************************************************)
(* Config.  The dictionaries are objects of a heap: a Config's _config and *)
(* the class's DEFAULT_CONFIG name dictionaries, and a dictionary holds,    *)
(* under each key, a scalar or the name of another dictionary.  A dotted    *)
(* key is the sequence of its parts, key.split('.').  A configuration file  *)
(* is kept as what yaml.safe_load returns for it: a mapping of at most two  *)
(* levels, None for an empty file, or a YAMLError.  loc.heap is the heap,   *)
(* loc.configs the Config objects made, fs the configuration files, io the  *)
(* last call.                                                               *)
(***************************************************************************)
Scalar(v) == [scalar |-> v]

\* the dictionary object at place i of the heap
Ref(i) == [dict |-> i]

IsDict(value) == "dict" \in DOMAIN value

\* a mapping inside a loaded document
Mapping(d) == [mapping |-> d]

IsMapping(value) == "mapping" \in DOMAIN value

DictPut(d, key, value) ==
    [k \in DOMAIN d \cup {key} |-> IF k = key THEN value ELSE d[k]]

\* lines 13-23: DEFAULT_CONFIG is the dictionary 1, its "analysis" the
\* dictionary 2, its "transform" the dictionary 3
DEFAULT_CONFIG ==
    <<[default_output_format |-> Scalar("text"), analysis |-> Ref(2), transform |-> Ref(3)],
      [include_readability |-> Scalar("True"), include_sentiment |-> Scalar("False")],
      [preserve_original |-> Scalar("True"), backup_suffix |-> Scalar(".bak")]>>

\* dict.copy(): a new dictionary with the same values under the same keys
DictCopy(heap, i) == [heap |-> Append(heap, heap[i]), ref |-> Len(heap) + 1]

\* base[key] = value for a value out of a loaded document: a mapping of the
\* document is a dictionary object of its own
Store(heap, base, key, value) ==
    IF IsMapping(value)
    THEN [Append(heap, value.mapping) EXCEPT ![base] = DictPut(@, key, Ref(Len(heap) + 1))]
    ELSE [heap EXCEPT ![base] = DictPut(@, key, value)]

\* lines 47-53: the heap after override is merged into the dictionary base
RECURSIVE _merge_config(_, _, _)
_merge_config(heap, base, override) ==
    IF DOMAIN override = {} THEN heap
    ELSE LET key == CHOOSE k \in DOMAIN override : TRUE
             value == override[key]
             rest == [k \in DOMAIN override \ {key} |-> override[k]]
             merged ==
                 IF /\ key \in DOMAIN heap[base]
                    /\ IsDict(heap[base][key])
                    /\ IsMapping(value)
                 THEN _merge_config(heap, heap[base][key].dict, value.mapping)
                 ELSE Store(heap, base, key, value)
         IN  _merge_config(merged, base, rest)

DefaultConfigPath == ".textprocessor.yaml"

\* lines 36-45: files is the configuration files there are
_load_config(heap, files, config_path, _config) ==
    IF config_path \notin DOMAIN files THEN heap
    ELSE LET user_config == files[config_path]
         IN  IF ~user_config.ok THEN heap          \* the warning of line 45
             ELSE IF user_config.value = None THEN heap
             ELSE _merge_config(heap, _config, user_config.value[1])

\* lines 25-34: the heap after Config(config_path), and the object made
Config__init__(heap, files, config_path) ==
    LET path == IF config_path = None THEN DefaultConfigPath ELSE config_path[1]
        copy == DictCopy(heap, 1)
    IN  [heap |-> _load_config(copy.heap, files, path, copy.ref),
         self |-> [config_path |-> path, _config |-> copy.ref]]

\* lines 55-73: found[n] is the value the first n parts of the key lead to,
\* None once a part is missing (KeyError) or is asked of a value that is no
\* dictionary (TypeError)
Config_get(heap, self, keys, default) ==
    LET found[n \in 0..Len(keys)] ==
            IF n = 0 THEN Some(Ref(self._config))
            ELSE LET value == found[n - 1]
                 IN  IF /\ value # None
                        /\ IsDict(value[1])
                        /\ keys[n] \in DOMAIN heap[value[1].dict]
                     THEN Some(heap[value[1].dict][keys[n]])
                     ELSE None
    IN  IF found[Len(keys)] = None THEN default ELSE found[Len(keys)][1]

\* lines 75-90: the heap after set, or the TypeError of a key path that goes
\* through a value that is no dictionary
RECURSIVE Config_set_in(_, _, _, _)
Config_set_in(heap, config, keys, value) ==
    IF Len(keys) = 1
    THEN Returned([heap EXCEPT ![config] = DictPut(@, keys[1], value)])
    ELSE LET k == Head(keys)
             made == IF k \notin DOMAIN heap[config]
                     THEN [Append(heap, <<>>) EXCEPT
                              ![config] = DictPut(@, k, Ref(Len(heap) + 1))]
                     ELSE heap
             next == made[config][k]
         IN  IF ~IsDict(next)
             THEN Raised("TypeError", k)
             ELSE Config_set_in(made, next.dict, Tail(keys), value)

Config_set(heap, self, keys, value) == Config_set_in(heap, self._config, keys, value)

\* lines 100-123: the properties of a Config
Properties(heap, self) ==
    [default_output_format |->
         Config_get(heap, self, <<"default_output_format">>, Scalar("text")),
     include_readability |->
         Config_get(heap, self, <<"analysis", "include_readability">>, Scalar("True")),
     include_sentiment |->
         Config_get(heap, self, <<"analysis", "include_sentiment">>, Scalar("False")),
     preserve_original |->
         Config_get(heap, self, <<"transform", "preserve_original">>, Scalar("True")),
     backup_suffix |->
         Config_get(heap, self, <<"transform", "backup_suffix">>, Scalar(".bak"))]

MaxConfigs == 2

\* the configuration files a process may find
UserConfigs ==
    {Returned(Some([default_output_format |-> Scalar("markdown")])),
     Returned(Some([analysis |-> Mapping([include_readability |-> Scalar("False")])])),
     Returned(Some([transform |-> Mapping([backup_suffix |-> Scalar("_old")]),
                    test |-> Mapping([value |-> Scalar("hello")])])),
     Returned(Some([analysis |-> Scalar("none")])),
     Returned(None),
     Raised("YAMLError", "user.yaml")}

ConfigPaths == {None, Some("user.yaml")}

SetKeys ==
    {<<"analysis", "include_readability">>, <<"default_output_format">>,
     <<"test", "value">>, <<"default_output_format", "value">>}

GetKeys ==
    SetKeys \cup {<<"analysis", "include_sentiment">>, <<"transform", "preserve_original">>,
                  <<"transform", "backup_suffix">>, <<"nonexistent", "key">>,
                  <<"analysis">>}

SetValues == {Scalar("False")}

ConfigInit ==
    /\ \E user \in UserConfigs, found \in BOOLEAN :
          fs = IF found
               THEN [p \in {"user.yaml", DefaultConfigPath} |->
                       IF p = "user.yaml" THEN user
                       ELSE Returned(Some([default_output_format |-> Scalar("json")]))]
               ELSE [p \in {"user.yaml"} |-> user]
    /\ dirs = {}
    /\ cmd = [name |-> "config"]
    /\ transformer = [preserve_original |-> TRUE, backup_suffix |-> <<".bak">>]
    /\ pc = "config"
    /\ loc = [heap |-> DEFAULT_CONFIG, configs |-> <<>>]
    /\ result = None
    /\ console = <<>>
    /\ exit_code = None
    /\ before = [fs |-> fs, dirs |-> dirs]
    /\ io = <<>>

\* Config(config_path)
NewConfig(config_path) ==
    /\ pc = "config"
    /\ Len(loc.configs) < MaxConfigs
    /\ \E made \in {Config__init__(loc.heap, fs, config_path)} :
         /\ loc' = [heap |-> made.heap, configs |-> Append(loc.configs, made.self)]
         /\ io' = <<[call |-> "Config", self |-> Len(loc.configs) + 1,
                    config_path |-> config_path]>>
    /\ result' = None
    /\ UNCHANGED <<fs, dirs, cmd, transformer, pc, console, exit_code, before>>

\* self.set(key, value), self being the Config object made as the c-th
ConfigSet(c, keys, value) ==
    /\ pc = "config"
    /\ c \in 1..Len(loc.configs)
    /\ \E r \in {Config_set(loc.heap, loc.configs[c], keys, value)} :
         /\ loc' = IF r.ok THEN [loc EXCEPT !.heap = r.value] ELSE loc
         /\ result' = Some(IF r.ok THEN Returned(None) ELSE r)
         /\ io' = <<[call |-> "set", self |-> c, keys |-> keys, value |-> value,
                    ok |-> r.ok]>>
    /\ UNCHANGED <<fs, dirs, cmd, transformer, pc, console, exit_code, before>>

\* self.get(key, default)
ConfigGet(c, keys, default) ==
    /\ pc = "config"
    /\ c \in 1..Len(loc.configs)
    /\ \E v \in {Config_get(loc.heap, loc.configs[c], keys, default)} :
         /\ result' = Some(Returned(v))
         /\ io' = <<[call |-> "get", self |-> c, keys |-> keys, default |-> default,
                    value |-> v]>>
    /\ UNCHANGED <<fs, dirs, cmd, transformer, pc, loc, console, exit_code, before>>

ConfigNext ==
    \/ \E config_path \in ConfigPaths : NewConfig(config_path)
    \/ \E c \in 1..MaxConfigs, keys \in SetKeys, value \in SetValues :
          ConfigSet(c, keys, value)
    \/ \E c \in 1..MaxConfigs, keys \in GetKeys : ConfigGet(c, keys, Scalar("default"))

ConfigSpec == ConfigInit /\ [][ConfigNext]_vars

(***************************************************************************)
(* What the claims about Config speak of.                                  *)
(***************************************************************************)
\* the last call made, and the Config object it was made on (or has made)
LastCall == io[Len(io)]

Self == loc.configs[LastCall.self]

\* does the key path lead to a value, from the dictionary value on
RECURSIVE Present(_, _, _)
Present(heap, value, keys) ==
    \/ keys = <<>>
    \/ /\ IsDict(value)
       /\ Head(keys) \in DOMAIN heap[value.dict]
       /\ Present(heap, heap[value.dict][Head(keys)], Tail(keys))

\* what a loaded document gives for a key path: the scalar it holds there,
\* "section" where it holds a mapping, "above" where the path goes through a
\* scalar of the document, "unnamed" where the document does not name it
RECURSIVE Named(_, _)
Named(document, keys) ==
    IF Head(keys) \notin DOMAIN document THEN "unnamed"
    ELSE LET value == document[Head(keys)]
         IN  IF Len(keys) = 1
             THEN (IF IsMapping(value) THEN "section" ELSE value.scalar)
             ELSE IF IsMapping(value) THEN Named(value.mapping, Tail(keys))
             ELSE "above"

\* the value a key path has by default
DefaultValue(keys, default) == Config_get(DEFAULT_CONFIG, [_config |-> 1], keys, default)

\* C25: after set(k, v) on a dotted key k, get(k) returns v; get of a key path
\* that is absent, or that passes through a value that is no mapping, returns
\* the default supplied; and a Config loaded from a user file has the file's
\* value under each key the file names and the default value under every
\* other key.
C25_KeyPathLookup ==
    (pc = "config" /\ io # <<>>)
    => /\ (LastCall.call = "set" /\ LastCall.ok)
             => Config_get(loc.heap, Self, LastCall.keys, Scalar("default")) = LastCall.value
       /\ (LastCall.call = "get" /\ ~Present(loc.heap, Ref(Self._config), LastCall.keys))
             => LastCall.value = LastCall.default
       /\ (/\ LastCall.call = "Config"
           /\ Self.config_path \in DOMAIN fs
           /\ fs[Self.config_path].ok
           /\ fs[Self.config_path].value # None)
             => \A keys \in GetKeys :
                   LET named == Named(fs[Self.config_path].value[1], keys)
                       got == Config_get(loc.heap, Self, keys, Scalar("default"))
                   IN  CASE named = "unnamed" ->
                               got = DefaultValue(keys, Scalar("default"))
                         [] named \in {"section", "above"} -> TRUE
                         [] OTHER -> got = Scalar(named)

\* C26: a Config constructed when no configuration file exists reports the
\* default values, whatever Config objects were constructed from user files
\* and whatever was set on other Config objects before; and the class-level
\* DEFAULT_CONFIG is never changed.
C26_DefaultsReported ==
    (pc = "config" /\ io # <<>>)
    => /\ SubSeq(loc.heap, 1, 3) = DEFAULT_CONFIG
       /\ (LastCall.call = "Config" /\ Self.config_path \notin DOMAIN fs)
             => Properties(loc.heap, Self) =
                   [default_output_format |-> Scalar("text"),
                    include_readability |-> Scalar("True"),
                    include_sentiment |-> Scalar("False"),
                    preserve_original |-> Scalar("True"),
                    backup_suffix |-> Scalar(".bak")]

\* C27: every source that read_text_file can decode can be transformed in
\* place with backup enabled: the backup step does not fail on a file the
\* read step accepted, for it reads the source with the same encodings.
C27_BackupReadsWhatReadAccepts ==
    (/\ cmd.name = "transform_file"
     /\ InPlaceWithBackup
     /\ HasReadSource
     /\ read_text_file(before.fs, before.dirs, cmd.file_path).ok)
    => ~(pc = "raised" /\ result[1].exc = "UnicodeDecodeError")

\* the source file is opened for writing as the destination by the i-th event
OverwritesSource(i) ==
    /\ io[i].role = "destination"
    /\ io[i].op = "open"
    /\ io[i].file = FileOf(cmd.file_path)

\* C28: with backup enabled, transform_file never overwrites the source file
\* without a backup written first, whatever way the output path spells the
\* source file.
C28_NoOverwriteWithoutBackup ==
    (cmd.name = "transform_file" /\ transformer.preserve_original)
    => \A j \in 1..Len(io) :
          OverwritesSource(j)
          => \E i \in 1..(j - 1) : io[i].role = "backup" /\ io[i].op = "write"

\* C30: for every text T, the output of normalize with default options has
\* no space just before one of , . ! ? ; : and each of those marks is followed
\* by whitespace or ends the text, also when marks stand side by side in T.
C30_PunctuationSpacing ==
    CalledWithDefaults("normalize")
    => LET out == io[1].outcome.value
       IN  /\ io[1].outcome.ok
           /\ \A i \in 1..(Len(out) - 1) :
                 /\ ~(out[i] = 32 /\ IsPunctuationMark(out[i + 1]))
                 /\ IsPunctuationMark(out[i]) => IsSpace(out[i + 1])

(***************************************************************************)
(* The interactive command (cli.py lines 183-250).  cmd.input is what the   *)
(* user will still type: lines, and interrupts of the keyboard; when it is  *)
(* used up the input stream has ended.  cmd.read is what the last read of   *)
(* the input gave.  console holds what the last command printed, before the *)
(* files as they were when the last transform command began, io what that   *)
(* command opened and wrote.                                                *)
(***************************************************************************)
Line(s) == [line |-> s]

Interrupt == [interrupt |-> TRUE]

\* console.input(prompt): the line typed; KeyboardInterrupt; or the EOFError
\* that input() raises when the stream has ended
console_input(input) ==
    IF input = <<>> THEN Raised("EOFError", "EOF when reading a line")
    ELSE IF "interrupt" \in DOMAIN Head(input) THEN Raised("KeyboardInterrupt", "")
    ELSE Returned(Head(input).line)

\* str.startswith
StartsWith(s, prefix) == Len(s) >= Len(prefix) /\ SubSeq(s, 1, Len(prefix)) = prefix

\* Path(file_path) for the names the user types: a.txt and d.txt are the
\* files of those names, any other name is a file that is not there
PathOf(name) ==
    IF name = <<97, 46, 116, 120, 116>> THEN Rel(ATxt)
    ELSE IF name = <<100, 46, 116, 120, 116>> THEN Rel(DTxt)
    ELSE Rel(<<"missing">>)

\* the operation name typed, as transform_text knows the names
OperationOf(name) ==
    IF name = <<117, 112, 112, 101, 114>> THEN "upper"
    ELSE IF name = <<85, 80, 80, 69, 82>> THEN "UPPER"
    ELSE "unknown_operation"

\* lines 198, 202, 212, 221, 229: 'quit', 'exit', 'q'; 'help'; 'config';
\* 'analyze '; 'transform '
QuitWords == {<<113, 117, 105, 116>>, <<101, 120, 105, 116>>, <<113>>}

HelpWord == <<104, 101, 108, 112>>

ConfigWord == <<99, 111, 110, 102, 105, 103>>

AnalyzePrefix == <<97, 110, 97, 108, 121, 122, 101, 32>>

TransformPrefix == <<116, 114, 97, 110, 115, 102, 111, 114, 109, 32>>

MaxInputLen == 3

\* what the user may type
InputItems ==
    {Interrupt,
     Line(<<113, 117, 105, 116>>),   \* 'quit'
     Line(<<69, 88, 73, 84>>),   \* 'EXIT'
     Line(<<32, 113>>),   \* ' q'
     Line(<<104, 101, 108, 112>>),   \* 'help'
     Line(<<99, 111, 110, 102, 105, 103>>),   \* 'config'
     Line(<<97, 110, 97, 108, 121, 122, 101, 32, 97, 46, 116, 120, 116>>),   \* 'analyze a.txt'
     Line(<<116, 114, 97, 110, 115, 102, 111, 114, 109, 32, 97, 46, 116, 120, 116>>),   \* 'transform a.txt'
     Line(<<116, 114, 97, 110, 115, 102, 111, 114, 109, 32, 100, 46, 116, 120, 116>>),   \* 'transform d.txt'
     Line(<<81, 117, 105, 116, 32, 110, 111, 119>>),   \* 'Quit now'
     Line(<<>>),   \* ''
     Line(<<117, 112, 112, 101, 114>>),   \* 'upper'
     Line(<<85, 80, 80, 69, 82>>)}   \* 'UPPER'

InteractiveInit ==
    /\ \E c \in {None} \cup {Some(bs) : bs \in Contents}, crowded \in BOOLEAN :
         /\ fs = InitialFiles(c, crowded)
         /\ dirs = InitialDirs(crowded)
    /\ \E input \in SeqsUpTo(InputItems, MaxInputLen) :
         cmd = [name |-> "interactive", input |-> input, read |-> None]
    \* line 192, with the configuration Config has by default
    /\ transformer = [preserve_original |-> TRUE, backup_suffix |-> <<".bak">>]
    /\ pc = "ia_prompt"
    /\ loc = NoLocals
    /\ result = None
    /\ console = <<>>
    /\ exit_code = None
    /\ before = [fs |-> fs, dirs |-> dirs]
    /\ io = <<>>

\* the loop is left (lines 200, 248) and the command returns
Leave(lines) ==
    /\ pc' = "exited"
    /\ exit_code' = Some(0)
    /\ console' = lines

\* the loop goes on to the next prompt
GoOn(lines) ==
    /\ pc' = "ia_prompt"
    /\ console' = lines
    /\ UNCHANGED exit_code

\* lines 195-250 for one command, but for the call of transform_file
IaRead ==
    /\ pc = "ia_prompt"
    /\ \E r \in {console_input(cmd.input)} :
         LET command == Strip(r.value)
             lower == MapChars(command, LowerCh)
             read == [name |-> "interactive",
                      input |-> IF cmd.input = <<>> THEN <<>> ELSE Tail(cmd.input),
                      read |-> Some(r)]
         IN  IF ~r.ok
             THEN /\ cmd' = read
                  /\ IF r.exc = "KeyboardInterrupt"
                     THEN Leave(<<Printed("plain", "Goodbye!")>>)
                     ELSE GoOn(<<Printed("red", "Error")>>)
             ELSE IF lower \in QuitWords
             THEN cmd' = read /\ Leave(<<Printed("plain", "Goodbye!")>>)
             ELSE IF lower = HelpWord
             THEN cmd' = read /\ GoOn(<<Printed("plain", "Available Commands")>>)
             ELSE IF lower = ConfigWord
             THEN cmd' = read /\ GoOn(<<Printed("plain", "Current Configuration")>>)
             ELSE IF StartsWith(command, AnalyzePrefix)
             THEN LET file_path ==
                          PathOf(Strip(SubSeq(command, Len(AnalyzePrefix) + 1, Len(command))))
                  IN  /\ cmd' = read
                      /\ IF ~Exists(fs, dirs, file_path)
                         THEN GoOn(<<Printed("red", "File not found")>>)
                         ELSE IF analyze_file(fs, dirs, file_path).ok
                         THEN GoOn(<<Printed("table", "Analysis")>>)
                         ELSE GoOn(<<Printed("red", "Error")>>)
             ELSE IF StartsWith(command, TransformPrefix)
             THEN LET file_path ==
                          PathOf(Strip(SubSeq(command, Len(TransformPrefix) + 1, Len(command))))
                  IN  IF ~Exists(fs, dirs, file_path)
                      THEN cmd' = read /\ GoOn(<<Printed("red", "File not found")>>)
                      ELSE /\ cmd' = [name |-> "interactive", input |-> read.input,
                                      read |-> read.read, file_path |-> file_path]
                           /\ pc' = "ia_operation"
                           /\ console' = <<>>
                           /\ UNCHANGED exit_code
             ELSE IF command # <<>>
             THEN cmd' = read /\ GoOn(<<Printed("red", "Unknown command"),
                                       Printed("plain", "Type 'help'")>>)
             ELSE cmd' = read /\ GoOn(<<>>)
    /\ UNCHANGED <<fs, dirs, transformer, loc, result, before, io>>

\* lines 233-235: the operation is asked for and transform_file is called
IaOperation ==
    /\ pc = "ia_operation"
    /\ \E r \in {console_input(cmd.input)} :
         LET rest == IF cmd.input = <<>> THEN <<>> ELSE Tail(cmd.input)
         IN  IF ~r.ok
             THEN /\ cmd' = [name |-> "interactive", input |-> rest, read |-> Some(r)]
                  /\ IF r.exc = "KeyboardInterrupt"
                     THEN Leave(<<Printed("plain", "Goodbye!")>>)
                     ELSE GoOn(<<Printed("red", "Error")>>)
                  /\ UNCHANGED <<loc, result, before, io>>
             ELSE /\ cmd' = [name |-> "interactive", input |-> rest, read |-> Some(r),
                             file_path |-> cmd.file_path,
                             operation |-> OperationOf(Strip(r.value)),
                             output_path |-> None, kwargs |-> NoKwargs]
                  /\ pc' = "tf_read"
                  /\ loc' = NoLocals
                  /\ result' = None
                  /\ before' = [fs |-> fs, dirs |-> dirs]
                  /\ io' = <<>>
                  /\ UNCHANGED <<console, exit_code>>
    /\ UNCHANGED <<fs, dirs, transformer>>

\* lines 236-238 and 249-250: what is printed when transform_file has returned
\* or raised
IaTransformDone ==
    /\ cmd.name = "interactive"
    /\ pc \in {"returned", "raised"}
    /\ IF pc = "returned"
       THEN GoOn(<<Printed("plain", "Transformed")>>)
       \* UnicodeDecodeError is a ValueError
       ELSE IF result[1].exc \in {"ValueError", "UnicodeDecodeError"}
       THEN GoOn(<<Printed("red", "ValueError")>>)
       ELSE GoOn(<<Printed("red", "Error")>>)
    /\ UNCHANGED <<fs, dirs, cmd, transformer, loc, result, before, io>>

InteractiveNext ==
    \/ IaRead
    \/ IaOperation
    \/ TfRead
    \/ TfTransform
    \/ TfBackup
    \/ TfBackupWrite
    \/ TfWrite
    \/ TfWriteData
    \/ IaTransformDone

InteractiveSpec == InteractiveInit /\ [][InteractiveNext]_vars

\* the last read was at the command prompt, or was cut short at the prompt
\* for the operation
AtCommandPrompt == "operation" \notin DOMAIN cmd

\* what was read ends the loop: quit, exit or q in any letter case, an
\* interrupt of the keyboard, or the end of the input
EndsLoop(r) ==
    IF r.ok THEN MapChars(Strip(r.value), LowerCh) \in QuitWords
    ELSE r.exc \in {"KeyboardInterrupt", "EOFError"}

\* the transform command has been carried out and has failed
TransformFailed ==
    /\ cmd.name = "interactive"
    /\ ~AtCommandPrompt
    /\ pc = "ia_prompt"
    /\ ~result[1].ok

\* C29: once the user enters quit, exit or q (in any letter case), interrupts
\* from the keyboard, or the input ends, the interactive loop has been left;
\* a transform command that failed is reported in red and the loop goes on to
\* the next prompt, and when the operation name was unknown the files are as
\* they were when the command began.
C29_LoopEnds ==
    cmd.name = "interactive" =>
        /\ (cmd.read # None /\ AtCommandPrompt /\ EndsLoop(cmd.read[1])) => pc = "exited"
        /\ TransformFailed =>
              /\ console # <<>> /\ console[1].style = "red"
              /\ ~IsOperation(cmd.operation) =>
                    fs = before.fs /\ dirs = before.dirs

====
